---- MODULE Spec2Model ----
(***************************************************************************)
(* A model of the bzrtp ZRTP engine: two endpoints, each running one       *)
(* channel of the state machine of stateMachine.c over the packet checker, *)
(* parser and builder of packetParser.c, joined by one packet queue per    *)
(* direction.                                                              *)
(*                                                                         *)
(* Cryptographic primitives are external collaborators of the engine.      *)
(* They are modelled as injective symbolic functions: SHA256 on the hash   *)
(* chain images is n + 10 on small integers, HMAC and the KDF are the      *)
(* tuple of their arguments, the CFB cipher is the pair (key, plaintext)   *)
(* that only the same key opens.                                           *)
(***************************************************************************)
EXTENDS Integers, Sequences, FiniteSets, TLC

\* ------------------------------------------------------------------------
\* Bounds of the model
\* ------------------------------------------------------------------------
\* disturbances of one behaviour: the timer ticks that send a packet again
\* (the tick that sends an endpoint's first Hello is not one of them) and the
\* packets the network loses, duplicates or alters
MaxDisturbances == 2

\* ------------------------------------------------------------------------
\* Constants of the sources
\* ------------------------------------------------------------------------
BZRTP_TIMER_ON == 1
BZRTP_TIMER_OFF == 2
HELLO_BASE_RETRANSMISSION_STEP == 50
HELLO_CAP_RETRANSMISSION_STEP == 200
HELLO_MAX_RETRANSMISSION_NUMBER == 20
NON_HELLO_BASE_RETRANSMISSION_STEP == 150
NON_HELLO_CAP_RETRANSMISSION_STEP == 1200
NON_HELLO_MAX_RETRANSMISSION_NUMBER == 10
\* sequence numbers are uint16_t
SeqModulus == 65536

INITIATOR == "INITIATOR"
RESPONDER == "RESPONDER"

\* the two endpoints; the ZID of endpoint e is e
Endpoints == {1, 2}
Peer(e) == 3 - e

\* ------------------------------------------------------------------------
\* External primitives (symbolic)
\* ------------------------------------------------------------------------
\* SHA-256 on a hash chain image
SHA256(x) == x + 10
\* HMAC of data under key
HMAC(key, data) == <<key, data>>
\* the ZRTP key derivation function KDF(KI, Label, Context)
KDF(key, label, context) == <<label, key, context>>
\* CFB encryption of plain under key, and its decryption: a different key
\* yields bytes that are not the plaintext
cipherEncrypt(key, plain) == <<key, plain>>
cipherDecrypt(key, c) == IF Len(c) = 2 /\ c[1] = key THEN c[2] ELSE 0 - 1
\* the Diffie-Hellman shared secret of two public values
DHComputeSecret(selfPv, peerPv) == {selfPv, peerPv}

\* ------------------------------------------------------------------------
\* Messages and packets
\* ------------------------------------------------------------------------
\* every message is a record of the same shape; a field a message type does
\* not carry holds its zero
EmptyMsg ==
  [t |-> "none", H |-> 0, ver |-> <<>>, zid |-> 0, M |-> 0, kas |-> <<>>,
   ka |-> "none", val |-> 0, hpre |-> <<>>, rs1ID |-> 0, pv |-> 0,
   enc |-> <<>>, cmac |-> <<>>, x |-> 0, mac |-> <<>>]

NoPacket == [seq |-> 0, type |-> "none", msg |-> EmptyMsg]

\* the bytes of a message covered by its trailing MAC
MacInput(m) == [m EXCEPT !.mac = <<>>]

NoStore == [hello |-> NoPacket, commit |-> NoPacket, dhpart |-> NoPacket, confirm |-> NoPacket]

Inc(n) == (n + 1) % SeqModulus

\* return codes are named by their macro; OK is the 0 of the C code
OK == "OK"

Res(z, out, ret) == [z |-> z, out |-> out, ret |-> ret]

\* the value of an expression computed once: S is the set of that one value
The(S) == CHOOSE x \in S : TRUE

\* ------------------------------------------------------------------------
\* Channel and session context of one endpoint
\* ------------------------------------------------------------------------
TimerOff == [status |-> BZRTP_TIMER_OFF, firingCount |-> 0, timerStep |-> 0]

NoPeerH == [h0 |-> 0, h1 |-> 0, h2 |-> 0, h3 |-> 0]

\* A profile is what the host configured before the channel starts: the
\* key agreement menu, the session key left by an earlier channel (<<>> when
\* this is the first channel), the retained secret rs1 cached for the peer
\* (0 when none), and rnd, the value the endpoint's random source and hash
\* give to its nonce or hvi read as a big-endian integer.
ProfileMain(r) == [kas |-> <<"DH3k">>, ZRTPSess |-> <<>>, rs1 |-> 0, rnd |-> r]
ProfileMainM(r) == [kas |-> <<"DH3k", "Mult">>, ZRTPSess |-> <<>>, rs1 |-> 0, rnd |-> r]
ProfileMult(k, r) == [kas |-> <<"DH3k", "Mult">>, ZRTPSess |-> <<"ZRTPSess", k>>, rs1 |-> 0, rnd |-> r]
ProfileCache(s, r) == [kas |-> <<"DH3k">>, ZRTPSess |-> <<>>, rs1 |-> s, rnd |-> r]

\* the channel after bzrtp_initBzrtpContext / bzrtp_addChannel and before the
\* first event
InitChannel(e, prof) ==
  [state |-> "discovery_init",
   role |-> INITIATOR,
   timer |-> TimerOff,
   selfSequenceNumber |-> 1,
   peerSequenceNumber |-> 0,
   selfPackets |-> NoStore,
   peerPackets |-> NoStore,
   selfH0 |-> e,
   peerH |-> NoPeerH,
   keyAgreementAlgo |-> "none",
   s0 |-> <<>>,
   KDFContext |-> <<>>,
   mackeyi |-> <<>>,
   mackeyr |-> <<>>,
   zrtpkeyi |-> <<>>,
   zrtpkeyr |-> <<>>,
   selfZID |-> e,
   peerZID |-> 0,
   selfPv |-> 100 + e,
   DHSecret |-> {},
   supportedKeyAgreement |-> prof.kas,
   peerSupportMultiChannel |-> 0,
   ZRTPSess |-> prof.ZRTPSess,
   zidCache |-> [rs1 |-> prof.rs1],
   cachedSecret |-> [rs1 |-> 0, rs2 |-> 0],
   initiatorCachedSecretHash |-> [rs1ID |-> 0],
   responderCachedSecretHash |-> [rs1ID |-> 0],
   rnd |-> prof.rnd,
   isSecure |-> 0]

\* selfH[i]: H0 is drawn at channel creation, H1..H3 are its successive hashes
RECURSIVE HashN(_, _)
HashN(x, n) == IF n = 0 THEN x ELSE SHA256(HashN(x, n - 1))
selfH(z, i) == HashN(z.selfH0, i)

IsDHMode(ka) == ka \notin {"Prsh", "Mult"}

\* ------------------------------------------------------------------------
\* packetParser.c: message creation and build
\* ------------------------------------------------------------------------
ZRTP_VERSION == <<"1", ".", "1", "0">>

\* bzrtp_computeKeyAgreementPublicValueLength: 0 when the agreed algorithm
\* exchanges no public value
bzrtp_computeKeyAgreementPublicValueLength(keyAgreementAlgo) ==
  IF keyAgreementAlgo \in {"DH2k", "DH3k"} THEN 1 ELSE 0

\* bzrtp_createZrtpPacket: the message data of a new packet of the given type
bzrtp_createZrtpPacket(z, messageType) ==
  CASE messageType = "Hello" ->
         [EmptyMsg EXCEPT !.t = "Hello", !.ver = ZRTP_VERSION, !.H = selfH(z, 3),
                          !.zid = z.selfZID, !.M = 0, !.kas = z.supportedKeyAgreement]
    [] messageType = "Commit" ->
         [EmptyMsg EXCEPT !.t = "Commit", !.H = selfH(z, 2), !.zid = z.selfZID,
                          !.ka = z.keyAgreementAlgo, !.val = z.rnd,
                          !.hpre = IF IsDHMode(z.keyAgreementAlgo)
                                   THEN <<z.selfPackets.dhpart.msg, z.peerPackets.hello.msg>>
                                   ELSE <<>>]
    [] messageType \in {"DHPart1", "DHPart2"} ->
         [EmptyMsg EXCEPT !.t = messageType, !.H = selfH(z, 1),
                          !.rs1ID = IF messageType = "DHPart2"
                                    THEN z.initiatorCachedSecretHash.rs1ID
                                    ELSE z.responderCachedSecretHash.rs1ID,
                          !.pv = z.selfPv]
    [] messageType \in {"Confirm1", "Confirm2"} ->
         [EmptyMsg EXCEPT !.t = messageType, !.H = selfH(z, 0)]
    [] OTHER -> [EmptyMsg EXCEPT !.t = messageType]

\* bzrtp_packetBuild without the test of the Confirm keys: a Confirm is
\* encrypted and authenticated with whatever the key fields of the role hold
bzrtp_packetBuild_keyless(z, m_, sequenceNumber) ==
  The({(
    CASE m.t = "Hello" ->
           [ret |-> OK, pkt |-> [seq |-> sequenceNumber, type |-> m.t,
                                 msg |-> [m EXCEPT !.mac = HMAC(selfH(z, 2), MacInput(m))]]]
      [] m.t = "Commit" ->
           [ret |-> OK, pkt |-> [seq |-> sequenceNumber, type |-> m.t,
                                 msg |-> [m EXCEPT !.mac = HMAC(selfH(z, 1), MacInput(m))]]]
      [] m.t \in {"DHPart1", "DHPart2"} ->
           IF bzrtp_computeKeyAgreementPublicValueLength(z.keyAgreementAlgo) = 0
           THEN [ret |-> "BUILDER_ERROR_INVALIDCONTEXT", pkt |-> NoPacket]
           ELSE [ret |-> OK, pkt |-> [seq |-> sequenceNumber, type |-> m.t,
                                      msg |-> [m EXCEPT !.mac = HMAC(selfH(z, 0), MacInput(m))]]]
      [] m.t \in {"Confirm1", "Confirm2"} ->
           LET confirmMessageKey == IF z.role = INITIATOR THEN z.zrtpkeyi ELSE z.zrtpkeyr
               confirmMessageMacKey == IF z.role = INITIATOR THEN z.mackeyi ELSE z.mackeyr
               enc == cipherEncrypt(confirmMessageKey, m.H)
           IN [ret |-> OK, pkt |-> [seq |-> sequenceNumber, type |-> m.t,
                                    msg |-> [m EXCEPT !.H = 0, !.enc = enc,
                                                      !.cmac = HMAC(confirmMessageMacKey, enc)]]]
      [] OTHER -> [ret |-> OK, pkt |-> [seq |-> sequenceNumber, type |-> m.t, msg |-> m]]
  ) : m \in {m_}})

\* bzrtp_packetBuild: the bytes of the packet; a Hello, Commit or DHPart gets
\* its MAC keyed by the hash image the next message will reveal, a Confirm is
\* encrypted and authenticated with the keys of the channel's role.  The
\* result is the return code and the built packet.
bzrtp_packetBuild(z, m_, sequenceNumber) ==
  The({(
    CASE m.t = "Hello" ->
           [ret |-> OK, pkt |-> [seq |-> sequenceNumber, type |-> m.t,
                                 msg |-> [m EXCEPT !.mac = HMAC(selfH(z, 2), MacInput(m))]]]
      [] m.t = "Commit" ->
           [ret |-> OK, pkt |-> [seq |-> sequenceNumber, type |-> m.t,
                                 msg |-> [m EXCEPT !.mac = HMAC(selfH(z, 1), MacInput(m))]]]
      [] m.t \in {"DHPart1", "DHPart2"} ->
           IF bzrtp_computeKeyAgreementPublicValueLength(z.keyAgreementAlgo) = 0
           THEN [ret |-> "BUILDER_ERROR_INVALIDCONTEXT", pkt |-> NoPacket]
           ELSE [ret |-> OK, pkt |-> [seq |-> sequenceNumber, type |-> m.t,
                                      msg |-> [m EXCEPT !.mac = HMAC(selfH(z, 0), MacInput(m))]]]
      [] m.t \in {"Confirm1", "Confirm2"} ->
           LET confirmMessageKey == IF z.role = INITIATOR THEN z.zrtpkeyi ELSE z.zrtpkeyr
               confirmMessageMacKey == IF z.role = INITIATOR THEN z.mackeyi ELSE z.mackeyr
               enc == cipherEncrypt(confirmMessageKey, m.H)
           IN IF confirmMessageKey = <<>> \/ confirmMessageMacKey = <<>>
              THEN [ret |-> "BUILDER_ERROR_INVALIDCONTEXT", pkt |-> NoPacket]
              ELSE [ret |-> OK, pkt |-> [seq |-> sequenceNumber, type |-> m.t,
                                        msg |-> [m EXCEPT !.H = 0, !.enc = enc,
                                                          !.cmac = HMAC(confirmMessageMacKey, enc)]]]
      [] OTHER -> [ret |-> OK, pkt |-> [seq |-> sequenceNumber, type |-> m.t, msg |-> m]]
  ) : m \in {m_}})

\* bzrtp_packetSetSequenceNumber (bzrtp_packetUpdateSequenceNumber for the
\* state machine): rewrite the sequence number of a built packet
bzrtp_packetSetSequenceNumber(pkt, sequenceNumber) == [pkt EXCEPT !.seq = sequenceNumber]

\* ------------------------------------------------------------------------
\* packetParser.c: packet check and parse
\* ------------------------------------------------------------------------
\* the packet came in fragments (preamble byte 0x11): what the state machine
\* is given is the reassembled packet, which carries the sequence number of
\* the fragment that completed it
isFragmented(pkt) == "fragmented" \in DOMAIN pkt

\* bzrtp_packetCheck: the header checks, of which the model keeps the sequence
\* number filter, applied to packets that did not come in fragments
bzrtp_packetCheck(pkt, peerSequenceNumber) ==
  IF ~isFragmented(pkt) /\ pkt.seq <= peerSequenceNumber THEN "PARSER_ERROR_OUTOFORDER"
  ELSE IF pkt.type = "none" THEN "PARSER_ERROR_INVALIDMESSAGE"
  ELSE OK

\* a MAC check that every stored message passes
MACMatches_always(key, stored) == TRUE

\* the MAC stored with a peer message verifies under the given key
MACMatches(key, stored) == HMAC(key, MacInput(stored.msg)) = stored.msg.mac

\* a Confirm message taken without validation
parseConfirm_unchecked(z, pkt) ==
  [ret |-> OK,
   H |-> cipherDecrypt(IF z.role = RESPONDER THEN z.zrtpkeyi ELSE z.zrtpkeyr, pkt.msg.enc)]

\* the validation a Confirm message gets: confirm_mac over the cipher text,
\* then the hash chain and the MAC of the peer message the decrypted H0
\* authenticates.  The result is the return code and the decrypted H0.
parseConfirm(z, pkt) ==
  LET confirmMessageKey == IF z.role = RESPONDER THEN z.zrtpkeyi ELSE z.zrtpkeyr
      confirmMessageMacKey == IF z.role = RESPONDER THEN z.mackeyi ELSE z.mackeyr
      H0 == cipherDecrypt(confirmMessageKey, pkt.msg.enc)
      checkH1 == SHA256(H0)
      checkH2 == SHA256(checkH1)
      checkH3 == SHA256(checkH2)
      code ==
        IF confirmMessageKey = <<>> \/ confirmMessageMacKey = <<>>
          THEN "PARSER_ERROR_INVALIDCONTEXT"
        ELSE IF HMAC(confirmMessageMacKey, pkt.msg.enc) # pkt.msg.cmac
          THEN "PARSER_ERROR_UNMATCHINGCONFIRMMAC"
        ELSE IF z.keyAgreementAlgo \in {"Prsh", "Mult"} THEN
          IF z.role = RESPONDER THEN
            IF z.peerPackets.commit = NoPacket THEN "PARSER_ERROR_UNEXPECTEDMESSAGE"
            ELSE IF checkH2 # z.peerPackets.commit.msg.H THEN "PARSER_ERROR_UNMATCHINGHASHCHAIN"
            ELSE IF ~MACMatches(checkH1, z.peerPackets.commit) THEN "PARSER_ERROR_UNMATCHINGMAC"
            ELSE OK
          ELSE
            IF z.peerPackets.hello = NoPacket THEN "PARSER_ERROR_UNEXPECTEDMESSAGE"
            ELSE IF checkH3 # z.peerPackets.hello.msg.H THEN "PARSER_ERROR_UNMATCHINGHASHCHAIN"
            ELSE IF ~MACMatches(checkH2, z.peerPackets.hello) THEN "PARSER_ERROR_UNMATCHINGMAC"
            ELSE OK
        ELSE
          IF z.peerPackets.dhpart = NoPacket THEN "PARSER_ERROR_UNEXPECTEDMESSAGE"
          ELSE IF checkH1 # z.peerPackets.dhpart.msg.H THEN "PARSER_ERROR_UNMATCHINGHASHCHAIN"
          ELSE IF ~MACMatches(H0, z.peerPackets.dhpart) THEN "PARSER_ERROR_UNMATCHINGMAC"
          ELSE OK
  IN [ret |-> code, H |-> H0]

\* a Commit message taken without validation
parseCommit_unchecked(z, pkt) == [ret |-> OK, H |-> pkt.msg.H]

\* the validation a Commit message gets
parseCommit(z, pkt) ==
  LET code ==
        IF z.peerPackets.hello = NoPacket THEN "PARSER_ERROR_UNEXPECTEDMESSAGE"
        ELSE IF SHA256(pkt.msg.H) # z.peerPackets.hello.msg.H THEN "PARSER_ERROR_UNMATCHINGHASHCHAIN"
        ELSE IF ~MACMatches(pkt.msg.H, z.peerPackets.hello) THEN "PARSER_ERROR_UNMATCHINGMAC"
        ELSE OK
  IN [ret |-> code, H |-> pkt.msg.H]

\* a DHPart parser that leaves the hvi of the Commit unchecked
parseDHPart_anyHvi(z, pkt) ==
  LET checkH2 == SHA256(pkt.msg.H)
      checkH3 == SHA256(checkH2)
      code ==
        IF bzrtp_computeKeyAgreementPublicValueLength(z.keyAgreementAlgo) = 0
          THEN "PARSER_ERROR_INVALIDCONTEXT"
        ELSE IF z.role = RESPONDER THEN
          IF z.peerPackets.commit = NoPacket THEN "PARSER_ERROR_UNEXPECTEDMESSAGE"
          ELSE IF checkH2 # z.peerPackets.commit.msg.H THEN "PARSER_ERROR_UNMATCHINGHASHCHAIN"
          ELSE IF ~MACMatches(pkt.msg.H, z.peerPackets.commit) THEN "PARSER_ERROR_UNMATCHINGMAC"
          ELSE OK
        ELSE
          IF z.peerPackets.hello = NoPacket THEN "PARSER_ERROR_UNEXPECTEDMESSAGE"
          ELSE IF checkH3 # z.peerPackets.hello.msg.H THEN "PARSER_ERROR_UNMATCHINGHASHCHAIN"
          ELSE IF ~MACMatches(checkH2, z.peerPackets.hello) THEN "PARSER_ERROR_UNMATCHINGMAC"
          ELSE OK
  IN [ret |-> code, H |-> pkt.msg.H]

\* the validation a DHPart message gets
parseDHPart(z, pkt) ==
  LET checkH2 == SHA256(pkt.msg.H)
      checkH3 == SHA256(checkH2)
      code ==
        IF bzrtp_computeKeyAgreementPublicValueLength(z.keyAgreementAlgo) = 0
          THEN "PARSER_ERROR_INVALIDCONTEXT"
        ELSE IF z.role = RESPONDER THEN
          IF z.peerPackets.commit = NoPacket THEN "PARSER_ERROR_UNEXPECTEDMESSAGE"
          ELSE IF checkH2 # z.peerPackets.commit.msg.H THEN "PARSER_ERROR_UNMATCHINGHASHCHAIN"
          ELSE IF ~MACMatches(pkt.msg.H, z.peerPackets.commit) THEN "PARSER_ERROR_UNMATCHINGMAC"
          ELSE IF <<pkt.msg, z.selfPackets.hello.msg>> # z.peerPackets.commit.msg.hpre
            THEN "PARSER_ERROR_UNMATCHINGHVI"
          ELSE OK
        ELSE
          IF z.peerPackets.hello = NoPacket THEN "PARSER_ERROR_UNEXPECTEDMESSAGE"
          ELSE IF checkH3 # z.peerPackets.hello.msg.H THEN "PARSER_ERROR_UNMATCHINGHASHCHAIN"
          ELSE IF ~MACMatches(checkH2, z.peerPackets.hello) THEN "PARSER_ERROR_UNMATCHINGMAC"
          ELSE OK
  IN [ret |-> code, H |-> pkt.msg.H]

\* bzrtp_packetParser: the return code and the hash image the message reveals
bzrtp_packetParser(z, pkt) ==
  CASE pkt.type = "Commit" -> parseCommit(z, pkt)
    [] pkt.type \in {"DHPart1", "DHPart2"} -> parseDHPart(z, pkt)
    [] pkt.type \in {"Confirm1", "Confirm2"} -> parseConfirm(z, pkt)
    [] OTHER -> [ret |-> OK, H |-> pkt.msg.H]

\* ------------------------------------------------------------------------
\* stateMachine.c: key schedule
\* ------------------------------------------------------------------------
\* the negotiated hash of a concatenation of messages or secrets
hashFunction(data) == <<"hash", data>>

\* bzrtp_deriveKeysFromS0: mackeyi, mackeyr, zrtpkeyi, zrtpkeyr from s0
bzrtp_deriveKeysFromS0(z_) ==
  The({(
    [z EXCEPT !.mackeyi = KDF(z.s0, "Initiator HMAC key", z.KDFContext),
              !.mackeyr = KDF(z.s0, "Responder HMAC key", z.KDFContext),
              !.zrtpkeyi = KDF(z.s0, "Initiator ZRTP key", z.KDFContext),
              !.zrtpkeyr = KDF(z.s0, "Responder ZRTP key", z.KDFContext)]
  ) : z \in {z_}})

\* bzrtp_computeS0DHMMode: total_hash, KDFContext, s0 and ZRTPSess of a
\* Diffie-Hellman exchange, then the derived keys
bzrtp_computeS0DHMMode(z_) ==
  The({(
    LET totalHash ==
          IF z.role = RESPONDER
          THEN hashFunction(<<z.selfPackets.hello.msg, z.peerPackets.commit.msg,
                              z.selfPackets.dhpart.msg, z.peerPackets.dhpart.msg>>)
          ELSE hashFunction(<<z.peerPackets.hello.msg, z.selfPackets.commit.msg,
                              z.peerPackets.dhpart.msg, z.selfPackets.dhpart.msg>>)
        ZIDi == IF z.role = RESPONDER THEN z.peerZID ELSE z.selfZID
        ZIDr == IF z.role = RESPONDER THEN z.selfZID ELSE z.peerZID
        KDFContext == <<ZIDi, ZIDr, totalHash>>
        s1 == z.cachedSecret.rs1
        s0 == hashFunction(<<1, z.DHSecret, "ZRTP-HMAC-KDF", KDFContext, s1>>)
    IN bzrtp_deriveKeysFromS0(
         [z EXCEPT !.KDFContext = KDFContext, !.s0 = s0,
                   !.ZRTPSess = KDF(s0, "ZRTP Session Key", KDFContext)])
  ) : z \in {z_}})

\* bzrtp_computeS0MultiStreamMode: total_hash over the responder's Hello and
\* the Commit, s0 from ZRTPSess, then the derived keys
bzrtp_computeS0MultiStreamMode(z_) ==
  The({(
    LET totalHash ==
          IF z.role = RESPONDER
          THEN hashFunction(<<z.selfPackets.hello.msg, z.peerPackets.commit.msg>>)
          ELSE hashFunction(<<z.peerPackets.hello.msg, z.selfPackets.commit.msg>>)
        ZIDi == IF z.role = RESPONDER THEN z.peerZID ELSE z.selfZID
        ZIDr == IF z.role = RESPONDER THEN z.selfZID ELSE z.peerZID
        KDFContext == <<ZIDi, ZIDr, totalHash>>
    IN bzrtp_deriveKeysFromS0(
         [z EXCEPT !.KDFContext = KDFContext,
                   !.s0 = KDF(z.ZRTPSess, "ZRTP MSK", KDFContext)])
  ) : z \in {z_}})

\* ------------------------------------------------------------------------
\* stateMachine.c: answer to the peer Hello
\* ------------------------------------------------------------------------
\* the menu with the mandatory key agreement appended when absent
WithMandatory(kas) ==
  IF \E i \in 1..Len(kas) : kas[i] = "DH3k" THEN kas ELSE Append(kas, "DH3k")

\* crypoAlgoAgreement for the key agreement category: the first entry of the
\* local menu that the peer's menu holds too
crypoAlgoAgreement(z, helloMessage) ==
  LET mine == WithMandatory(z.supportedKeyAgreement)
      theirs == WithMandatory(helloMessage.kas)
      common == {i \in 1..Len(mine) : \E j \in 1..Len(theirs) : theirs[j] = mine[i]}
  IN mine[CHOOSE i \in common : \A k \in common : i <= k]

\* the 8 byte identifier of a cached secret, HMAC(secret, label) truncated
SecretID(secret, label) == secret * 10 + (IF label = "Initiator" THEN 1 ELSE 2)
\* the random identifier an endpoint draws for a secret it does not hold
RandomID(zid, label) == 1000 + zid * 10 + (IF label = "Initiator" THEN 1 ELSE 2)

\* the first three characters of the version are compared
VersionMatches(ver) == Len(ver) >= 3 /\ SubSeq(ver, 1, 3) = SubSeq(ZRTP_VERSION, 1, 3)

\* a packet that is built and not stored (HelloACK, Conf2ACK): handed to the
\* send callback, selfSequenceNumber++, freed
SendBuilt(z_, b_) ==
  The({(
    IF b.ret # OK THEN Res(z, <<>>, b.ret)
    ELSE Res([z EXCEPT !.selfSequenceNumber = Inc(@)], <<b.pkt>>, OK)
  ) : z \in {z_}, b \in {b_}})

\* a packet that is built, stored in selfPackets[id] and handed to the send
\* callback, selfSequenceNumber++
StoreAndSend(z_, b_, id) ==
  The({(
    IF b.ret # OK THEN Res(z, <<>>, b.ret)
    ELSE Res([z EXCEPT !.selfPackets[id] = b.pkt, !.selfSequenceNumber = Inc(@)],
             <<b.pkt>>, OK)
  ) : z \in {z_}, b \in {b_}})

\* the DHM branch of bzrtp_responseToHelloMessage: the DHPart2 is built with
\* sequence number 0 and stored for the hvi of the Commit
responseToHello_DHPart(z_, b_) ==
  The({(
    IF IsDHMode(z.keyAgreementAlgo) THEN [z EXCEPT !.selfPackets.dhpart = b.pkt] ELSE z
  ) : z \in {z_}, b \in {b_}})

\* a response to Hello that keeps the negotiated key agreement
responseToHello_secrets_negotiated(z, pkt, rs1, peerSupportMultiChannel) ==
  [z EXCEPT
     !.keyAgreementAlgo =
         crypoAlgoAgreement(z, pkt.msg),
     !.peerSupportMultiChannel = peerSupportMultiChannel,
     !.peerZID = pkt.msg.zid,
     !.peerH.h3 = pkt.msg.H,
     !.peerPackets.hello = pkt,
     !.cachedSecret.rs1 = rs1,
     !.initiatorCachedSecretHash.rs1ID =
         IF rs1 # 0 THEN SecretID(rs1, "Initiator") ELSE RandomID(z.selfZID, "Initiator"),
     !.responderCachedSecretHash.rs1ID =
         IF rs1 # 0 THEN SecretID(rs1, "Responder") ELSE RandomID(z.selfZID, "Responder")]

\* the part of bzrtp_responseToHelloMessage after the cache lookup: the
\* secret identifiers, the mode, the DHPart2 and the HelloACK
responseToHello_secrets(z, pkt, rs1, peerSupportMultiChannel) ==
  [z EXCEPT
     !.keyAgreementAlgo =
         IF peerSupportMultiChannel = 1 /\ z.ZRTPSess # <<>>
         THEN "Mult" ELSE crypoAlgoAgreement(z, pkt.msg),
     !.peerSupportMultiChannel = peerSupportMultiChannel,
     !.peerZID = pkt.msg.zid,
     !.peerH.h3 = pkt.msg.H,
     !.peerPackets.hello = pkt,
     !.cachedSecret.rs1 = rs1,
     !.initiatorCachedSecretHash.rs1ID =
         IF rs1 # 0 THEN SecretID(rs1, "Initiator") ELSE RandomID(z.selfZID, "Initiator"),
     !.responderCachedSecretHash.rs1ID =
         IF rs1 # 0 THEN SecretID(rs1, "Responder") ELSE RandomID(z.selfZID, "Responder")]

responseToHello_helloACK(z_) ==
  The({(
    SendBuilt(z, bzrtp_packetBuild(z, bzrtp_createZrtpPacket(z, "HelloACK"),
                                   z.selfSequenceNumber))
  ) : z \in {z_}})

responseToHello_mode(z_) ==
  The({(
    responseToHello_helloACK(
      responseToHello_DHPart(z, bzrtp_packetBuild(z, bzrtp_createZrtpPacket(z, "DHPart2"), 0)))
  ) : z \in {z_}})

\* bzrtp_responseToHelloMessage: store the peer Hello, agree on algorithms,
\* compute the cached secret identifiers, select the mode, build the DHPart2
\* in DHM mode and send a HelloACK
bzrtp_responseToHelloMessage(z_, pkt) ==
  The({(
    IF ~VersionMatches(pkt.msg.ver) THEN Res(z, <<>>, "ERROR_UNSUPPORTEDZRTPVERSION")
    ELSE responseToHello_mode(
           responseToHello_secrets(
             z, pkt,
             IF z.cachedSecret.rs1 = 0 THEN z.zidCache.rs1 ELSE z.cachedSecret.rs1,
             IF \E i \in 1..Len(pkt.msg.kas) : pkt.msg.kas[i] = "Mult" THEN 1 ELSE 0))
  ) : z \in {z_}})

\* ------------------------------------------------------------------------
\* stateMachine.c: the states
\* ------------------------------------------------------------------------
\* An event is [eventType, pkt, cmp, uaf].  eventType is INIT, MESSAGE or
\* TIMER and pkt the received packet of a MESSAGE.  cmp and uaf are what two
\* reads of the repetition checks return.  The memcmp of a repetition check
\* reads peerPackets[...] + ZRTP_PACKET_HEADER_LENGTH, an address twelve
\* packet structures past the stored packet and not its packetString: what
\* it compares is unrelated to the stored message, so its verdict cmp is any
\* boolean.  After a match the packet is freed before its sequenceNumber is
\* read: the value read, uaf, is the packet's own or whatever the allocator
\* left there.
InitEvent == [eventType |-> "INIT", pkt |-> NoPacket, cmp |-> TRUE, uaf |-> 0]

\* the next state is set and called with an INIT event
Enter(z, state) == [z EXCEPT !.state = state]

\* the timer as a sending state arms it
TimerOn(step) == [status |-> BZRTP_TIMER_ON, firingCount |-> 0, timerStep |-> step]

\* the timer armed once the packet of an INIT branch went out
ArmTimer(r_, step) ==
  The({(
    IF r.ret # OK THEN r ELSE Res([r.z EXCEPT !.timer = TimerOn(step)], r.out, r.ret)
  ) : r \in {r_}})

\* a retransmission that leaves selfSequenceNumber as it is
Resend_sameNumber(z, id) ==
  IF z.selfPackets[id] = NoPacket THEN Res(z, <<>>, "BUILDER_ERROR_INVALIDPACKET")
  ELSE Res([z EXCEPT !.selfPackets[id].seq = z.selfSequenceNumber],
           <<bzrtp_packetSetSequenceNumber(z.selfPackets[id], z.selfSequenceNumber)>>, OK)

\* bzrtp_packetUpdateSequenceNumber on the stored packet, then the send
\* callback and selfSequenceNumber++
Resend(z_, id) ==
  The({(
    IF z.selfPackets[id] = NoPacket THEN Res(z, <<>>, "BUILDER_ERROR_INVALIDPACKET")
    ELSE Res([z EXCEPT !.selfPackets[id].seq = z.selfSequenceNumber,
                       !.selfSequenceNumber = Inc(@)],
             <<bzrtp_packetSetSequenceNumber(z.selfPackets[id], z.selfSequenceNumber)>>, OK)
  ) : z \in {z_}})

\* the answer to a repetition that passed the memcmp: the packet is freed,
\* peerSequenceNumber is read from it, and the stored self packet is sent
\* again under the next sequence number
RepeatStored(z, ev, id) == Resend([z EXCEPT !.peerSequenceNumber = ev.uaf], id)

\* the adjustment of the timer in a TIMER branch: the step doubles below its
\* cap while firingCount is under max, else the timer stops
AdjustTimer(z, max, cap) ==
  IF z.timer.firingCount < max
  THEN IF 2 * z.timer.timerStep < cap THEN [z EXCEPT !.timer.timerStep = 2 * @] ELSE z
  ELSE [z EXCEPT !.timer.status = BZRTP_TIMER_OFF]

\* the TIMER branch every sending state shares: the timer is adjusted, then
\* the stored packet is sent again under the next sequence number
Retransmit(z, id, max, cap) == Resend(AdjustTimer(z, max, cap), id)

\* a secure state that leaves the flag of the session alone
state_secure_unflagged(z, ev) == Res(z, <<>>, OK)

\* state_secure
state_secure(z, ev) == Res([z EXCEPT !.isSecure = 1], <<>>, OK)

\* the process after a read through a NULL stored packet: it is gone, no
\* event reaches the channel any more
Crash(z) == Res([z EXCEPT !.state = "crashed"], <<>>, "SIGSEGV")

\* the repetition check of a message whose first copy is stored in
\* peerPackets[id]: the memcmp reads the stored packet's messageLength and
\* compares at the address cmp stands for
Repetition(z, ev, id, accepted) ==
  IF z.peerPackets[id] = NoPacket THEN Crash(z)
  ELSE IF ~ev.cmp THEN Res(z, <<>>, "ERROR_UNMATCHINGPACKETREPETITION")
  ELSE accepted

\* the packets sent before the next state was called come first
Prepend(out, r_) ==
  The({(
    Res(r.z, out \o r.out, r.ret)
  ) : r \in {r_}})

\* state_confirmation_responderSendingConfirm1, INIT: the Confirm1 is built,
\* stored and sent
responderSendingConfirm1_build(z_) ==
  The({(
    StoreAndSend(z, bzrtp_packetBuild(z, bzrtp_createZrtpPacket(z, "Confirm1"),
                                      z.selfSequenceNumber), "confirm")
  ) : z \in {z_}})

\* state_confirmation_responderSendingConfirm1, Confirm2: once the Conf2ACK
\* went out the secure state is entered
responderSendingConfirm1_secure(r_) ==
  The({(
    IF r.ret # OK THEN r
    ELSE Prepend(r.out, state_secure(Enter(r.z, "secure"), InitEvent))
  ) : r \in {r_}})

responderSendingConfirm1_conf2ACK(z_) ==
  The({(
    responderSendingConfirm1_secure(
      SendBuilt(z, bzrtp_packetBuild(z, bzrtp_createZrtpPacket(z, "Conf2ACK"),
                                     z.selfSequenceNumber)))
  ) : z \in {z_}})

\* a Confirm2 answered whatever the parser returned
responderSendingConfirm1_confirm2_unchecked(z, ev, pr) ==
  responderSendingConfirm1_conf2ACK(
    [z EXCEPT !.peerH.h0 = pr.H, !.peerPackets.confirm = ev.pkt,
              !.peerSequenceNumber = ev.pkt.seq])

responderSendingConfirm1_confirm2(z, ev, pr_) ==
  The({(
    IF pr.ret # OK THEN Res(z, <<>>, pr.ret)
    ELSE responderSendingConfirm1_conf2ACK(
           [z EXCEPT !.peerH.h0 = pr.H, !.peerPackets.confirm = ev.pkt,
                     !.peerSequenceNumber = ev.pkt.seq])
  ) : pr \in {pr_}})

\* state_confirmation_responderSendingConfirm1
state_confirmation_responderSendingConfirm1(z_, ev) ==
  The({(
    IF ev.eventType = "INIT" THEN
      IF z.keyAgreementAlgo = "Mult" /\ z.ZRTPSess = <<>> THEN Res(z, <<>>, "ERROR_INVALIDCONTEXT")
      ELSE IF z.keyAgreementAlgo \notin {"Mult", "Prsh"} /\ (z.mackeyr = <<>> \/ z.zrtpkeyr = <<>>)
        THEN Res(z, <<>>, "ERROR_INVALIDCONTEXT")
      ELSE responderSendingConfirm1_build(
             [(IF z.keyAgreementAlgo = "Mult" THEN bzrtp_computeS0MultiStreamMode(z) ELSE z)
                EXCEPT !.timer.status = BZRTP_TIMER_OFF])
    ELSE IF ev.eventType = "MESSAGE" THEN
      IF bzrtp_packetCheck(ev.pkt, z.peerSequenceNumber) # OK
        THEN Res(z, <<>>, bzrtp_packetCheck(ev.pkt, z.peerSequenceNumber))
      ELSE IF ev.pkt.type \notin {"Confirm2", "Commit", "DHPart2"}
        THEN Res(z, <<>>, "PARSER_ERROR_UNEXPECTEDMESSAGE")
      ELSE IF ev.pkt.type = "Commit" THEN
        IF z.keyAgreementAlgo # "Prsh" /\ z.keyAgreementAlgo # "Mult"
          THEN Res(z, <<>>, "PARSER_ERROR_UNEXPECTEDMESSAGE")
        ELSE Repetition(z, ev, "commit", RepeatStored(z, ev, "confirm"))
      ELSE IF ev.pkt.type = "DHPart2" THEN
        IF z.keyAgreementAlgo = "Prsh" \/ z.keyAgreementAlgo # "Mult"
          THEN Res(z, <<>>, "PARSER_ERROR_UNEXPECTEDMESSAGE")
        ELSE Repetition(z, ev, "dhpart", RepeatStored(z, ev, "confirm"))
      ELSE responderSendingConfirm1_confirm2(z, ev, bzrtp_packetParser(z, ev.pkt))
    ELSE Res(z, <<>>, OK)
  ) : z \in {z_}})

\* state_keyAgreement_responderSendingDHPart1, DHPart2: the secret
\* identifiers are compared, the packet stored, s0 computed and the next
\* state called
responderSendingDHPart1_dhPart2(z, ev, pr_) ==
  The({(
    IF pr.ret # OK THEN Res(z, <<>>, pr.ret)
    ELSE IF z.cachedSecret.rs1 # 0 /\ z.initiatorCachedSecretHash.rs1ID # ev.pkt.msg.rs1ID
      THEN Res(z, <<>>, "ERROR_CACHEMISMATCH")
    ELSE state_confirmation_responderSendingConfirm1(
           Enter(bzrtp_computeS0DHMMode(
                   [z EXCEPT !.peerSequenceNumber = ev.pkt.seq,
                             !.peerH.h1 = pr.H,
                             !.peerPackets.dhpart = ev.pkt,
                             !.DHSecret = DHComputeSecret(z.selfPv, ev.pkt.msg.pv)]),
                 "responderSendingConfirm1"),
           InitEvent)
  ) : pr \in {pr_}})

\* state_keyAgreement_responderSendingDHPart1
state_keyAgreement_responderSendingDHPart1(z_, ev) ==
  The({(
    IF z.selfPackets.dhpart = NoPacket THEN Res(z, <<>>, "ERROR_INVALIDCONTEXT")
    ELSE IF ev.eventType = "INIT" THEN
      Res([z EXCEPT !.timer.status = BZRTP_TIMER_OFF], <<z.selfPackets.dhpart>>, OK)
    ELSE IF ev.eventType = "MESSAGE" THEN
      IF bzrtp_packetCheck(ev.pkt, z.peerSequenceNumber) # OK
        THEN Res(z, <<>>, bzrtp_packetCheck(ev.pkt, z.peerSequenceNumber))
      ELSE IF ev.pkt.type \notin {"Commit", "DHPart2"}
        THEN Res(z, <<>>, "PARSER_ERROR_UNEXPECTEDMESSAGE")
      ELSE IF ev.pkt.type = "Commit"
        THEN Repetition(z, ev, "commit", RepeatStored(z, ev, "dhpart"))
      ELSE responderSendingDHPart1_dhPart2(z, ev, bzrtp_packetParser(z, ev.pkt))
    ELSE Res(z, <<>>, OK)
  ) : z \in {z_}})

\* bzrtp_turnIntoResponder, the end: the next state follows the mode
turnIntoResponder_next(z_) ==
  The({(
    IF z.keyAgreementAlgo \in {"Prsh", "Mult"}
    THEN state_confirmation_responderSendingConfirm1(Enter(z, "responderSendingConfirm1"),
                                                     InitEvent)
    ELSE state_keyAgreement_responderSendingDHPart1(Enter(z, "responderSendingDHPart1"),
                                                    InitEvent)
  ) : z \in {z_}})

\* bzrtp_turnIntoResponder, the self DHPart: its type and secret identifiers
\* become the responder's, then it is built again
turnIntoResponder_rebuilt(z_, b_) ==
  The({(
    IF b.ret # OK THEN Res(z, <<>>, b.ret)
    ELSE turnIntoResponder_next([z EXCEPT !.selfPackets.dhpart = b.pkt,
                                          !.selfSequenceNumber = Inc(@)])
  ) : z \in {z_}, b \in {b_}})

turnIntoResponder_DHPart1(z_) ==
  The({(
    IF z.selfPackets.dhpart = NoPacket THEN turnIntoResponder_next(z)
    ELSE turnIntoResponder_rebuilt(z, bzrtp_packetBuild(z, z.selfPackets.dhpart.msg,
                                                        z.selfSequenceNumber))
  ) : z \in {z_}})

\* bzrtp_turnIntoResponder: the peer Commit is stored, the role and the
\* algorithms follow it, the self DHPart2 becomes a DHPart1 with the
\* responder's secret identifiers, and the responder state is entered
bzrtp_turnIntoResponder(z_, pkt) ==
  The({(
    turnIntoResponder_DHPart1(
      [z EXCEPT !.timer.status = BZRTP_TIMER_OFF,
                !.peerPackets.commit = pkt,
                !.peerH.h2 = pkt.msg.H,
                !.role = RESPONDER,
                !.keyAgreementAlgo = pkt.msg.ka,
                !.selfPackets.dhpart =
                    IF @ = NoPacket THEN @
                    ELSE [@ EXCEPT !.type = "DHPart1", !.msg.t = "DHPart1",
                                   !.msg.rs1ID = z.responderCachedSecretHash.rs1ID]])
  ) : z \in {z_}})

\* state_confirmation_initiatorSendingConfirm2, Conf2ACK
initiatorSendingConfirm2_conf2ACK(z, pr_) ==
  The({(
    IF pr.ret # OK THEN Res(z, <<>>, pr.ret)
    ELSE state_secure(Enter([z EXCEPT !.timer.status = BZRTP_TIMER_OFF], "secure"), InitEvent)
  ) : pr \in {pr_}})

\* state_confirmation_initiatorSendingConfirm2
state_confirmation_initiatorSendingConfirm2(z_, ev) ==
  The({(
    IF ev.eventType = "INIT" THEN
      IF z.mackeyi = <<>> \/ z.zrtpkeyi = <<>> THEN Res(z, <<>>, "ERROR_INVALIDCONTEXT")
      ELSE ArmTimer(StoreAndSend(z, bzrtp_packetBuild(z, bzrtp_createZrtpPacket(z, "Confirm2"),
                                                      z.selfSequenceNumber), "confirm"),
                    NON_HELLO_BASE_RETRANSMISSION_STEP)
    ELSE IF ev.eventType = "MESSAGE" THEN
      IF bzrtp_packetCheck(ev.pkt, z.peerSequenceNumber) # OK
        THEN Res(z, <<>>, bzrtp_packetCheck(ev.pkt, z.peerSequenceNumber))
      ELSE IF ev.pkt.type \notin {"Confirm1", "Conf2ACK"}
        THEN Res(z, <<>>, "PARSER_ERROR_UNEXPECTEDMESSAGE")
      ELSE IF ev.pkt.type = "Confirm1"
        THEN Repetition(z, ev, "confirm", Res([z EXCEPT !.peerSequenceNumber = ev.uaf], <<>>, OK))
      ELSE initiatorSendingConfirm2_conf2ACK(z, bzrtp_packetParser(z, ev.pkt))
    ELSE IF ev.eventType = "TIMER" THEN
      Retransmit(z, "confirm", NON_HELLO_MAX_RETRANSMISSION_NUMBER,
                 NON_HELLO_CAP_RETRANSMISSION_STEP)
    ELSE Res(z, <<>>, OK)
  ) : z \in {z_}})

\* state_keyAgreement_initiatorSendingDHPart2, Confirm1
initiatorSendingDHPart2_confirm1(z, ev, pr_) ==
  The({(
    IF pr.ret # OK THEN Res(z, <<>>, pr.ret)
    ELSE state_confirmation_initiatorSendingConfirm2(
           Enter([z EXCEPT !.timer.status = BZRTP_TIMER_OFF,
                           !.peerH.h0 = pr.H,
                           !.peerPackets.confirm = ev.pkt,
                           !.peerSequenceNumber = ev.pkt.seq],
                 "initiatorSendingConfirm2"),
           InitEvent)
  ) : pr \in {pr_}})

\* state_keyAgreement_initiatorSendingDHPart2
state_keyAgreement_initiatorSendingDHPart2(z_, ev) ==
  The({(
    IF ev.eventType = "INIT" THEN
      ArmTimer(Resend(z, "dhpart"), NON_HELLO_BASE_RETRANSMISSION_STEP)
    ELSE IF ev.eventType = "MESSAGE" THEN
      IF bzrtp_packetCheck(ev.pkt, z.peerSequenceNumber) # OK
        THEN Res(z, <<>>, bzrtp_packetCheck(ev.pkt, z.peerSequenceNumber))
      ELSE IF ev.pkt.type \notin {"DHPart1", "Confirm1"}
        THEN Res(z, <<>>, "PARSER_ERROR_UNEXPECTEDMESSAGE")
      ELSE IF ev.pkt.type = "DHPart1"
        THEN Repetition(z, ev, "dhpart", Res([z EXCEPT !.peerSequenceNumber = ev.uaf], <<>>, OK))
      ELSE initiatorSendingDHPart2_confirm1(z, ev, bzrtp_packetParser(z, ev.pkt))
    ELSE IF ev.eventType = "TIMER" THEN
      Retransmit(z, "dhpart", NON_HELLO_MAX_RETRANSMISSION_NUMBER,
                 NON_HELLO_CAP_RETRANSMISSION_STEP)
    ELSE Res(z, <<>>, OK)
  ) : z \in {z_}})

\* a contention in which the higher hvi or nonce gives way
ContentionMakesResponder_higher(z, peerCommitMessage) ==
  z.selfPackets.commit.msg.val > peerCommitMessage.val

\* a contention that looks at the nonce or hvi alone
ContentionMakesResponder_valueOnly(z, peerCommitMessage) ==
  z.selfPackets.commit.msg.val < peerCommitMessage.val

\* the commit contention rule of state_keyAgreement_sendingCommit: TRUE when
\* the channel gives up its own Commit and becomes the responder
ContentionMakesResponder(z, peerCommitMessage) ==
  IF peerCommitMessage.ka # z.selfPackets.commit.msg.ka
    THEN peerCommitMessage.ka # "Prsh" /\ z.selfPackets.commit.msg.ka = "Prsh"
  ELSE IF peerCommitMessage.ka = "Prsh"
          /\ (z.selfPackets.hello.msg.M = 1 \/ z.peerPackets.hello.msg.M = 1)
    THEN z.selfPackets.hello.msg.M = 1
  ELSE z.selfPackets.commit.msg.val < peerCommitMessage.val

\* state_keyAgreement_sendingCommit, DHPart1: the timer stops, the secret
\* identifiers are compared, the packet stored, s0 computed and the next
\* state called
sendingCommit_dhPart1(z_, ev, pr) ==
  The({(
    IF z.cachedSecret.rs1 # 0 /\ z.initiatorCachedSecretHash.rs1ID # ev.pkt.msg.rs1ID
      THEN Res(z, <<>>, "ERROR_CACHEMISMATCH")
    ELSE state_keyAgreement_initiatorSendingDHPart2(
           Enter(bzrtp_computeS0DHMMode(
                   [z EXCEPT !.peerH.h1 = pr.H,
                             !.peerPackets.dhpart = ev.pkt,
                             !.DHSecret = DHComputeSecret(z.selfPv, ev.pkt.msg.pv)]),
                 "initiatorSendingDHPart2"),
           InitEvent)
  ) : z \in {z_}})

\* state_keyAgreement_sendingCommit, Commit: the contention
sendingCommit_commit(z, ev) ==
  IF z.role = RESPONDER \/ ContentionMakesResponder(z, ev.pkt.msg)
  THEN bzrtp_turnIntoResponder([z EXCEPT !.role = RESPONDER,
                                         !.selfPackets.commit = NoPacket], ev.pkt)
  ELSE Res(z, <<>>, OK)

\* state_keyAgreement_sendingCommit, after the parse: z0 is the context as
\* the parse found it, z the context with the sequence number of the packet
sendingCommit_parsed(z0, z_, ev, pr_) ==
  The({(
    IF pr.ret # OK THEN Res(z0, <<>>, pr.ret)
    ELSE IF ev.pkt.type = "DHPart1"
      THEN sendingCommit_dhPart1([z EXCEPT !.timer.status = BZRTP_TIMER_OFF], ev, pr)
    ELSE IF ev.pkt.type = "Confirm1"
      THEN state_confirmation_initiatorSendingConfirm2(
             Enter([z EXCEPT !.timer.status = BZRTP_TIMER_OFF, !.peerH.h0 = pr.H],
                   "initiatorSendingConfirm2"),
             InitEvent)
    ELSE sendingCommit_commit(z, ev)
  ) : z \in {z_}, pr \in {pr_}})

\* state_keyAgreement_sendingCommit, the parse: in multistream mode s0 and
\* the keys are derived before a Confirm1 is parsed
sendingCommit_parse(z_, ev) ==
  The({(
    sendingCommit_parsed(z, [z EXCEPT !.peerSequenceNumber = ev.pkt.seq], ev,
                         bzrtp_packetParser(z, ev.pkt))
  ) : z \in {z_}})

\* state_keyAgreement_sendingCommit
state_keyAgreement_sendingCommit(z_, ev) ==
  The({(
    IF ev.eventType = "INIT" /\ z.selfPackets.commit = NoPacket THEN
      ArmTimer(StoreAndSend(z, bzrtp_packetBuild(z, bzrtp_createZrtpPacket(z, "Commit"),
                                                 z.selfSequenceNumber), "commit"),
               NON_HELLO_BASE_RETRANSMISSION_STEP)
    ELSE IF ev.eventType = "MESSAGE" THEN
      IF bzrtp_packetCheck(ev.pkt, z.peerSequenceNumber) # OK
        THEN Res(z, <<>>, bzrtp_packetCheck(ev.pkt, z.peerSequenceNumber))
      ELSE IF ev.pkt.type \notin {"Commit", "DHPart1", "Confirm1"}
        THEN Res(z, <<>>, "PARSER_ERROR_UNEXPECTEDMESSAGE")
      ELSE IF ev.pkt.type = "DHPart1" /\ (z.keyAgreementAlgo = "Prsh" \/ z.keyAgreementAlgo = "Prsh")
        THEN Res(z, <<>>, "PARSER_ERROR_UNEXPECTEDMESSAGE")
      ELSE IF ev.pkt.type = "Confirm1" /\ z.keyAgreementAlgo # "Prsh" /\ z.keyAgreementAlgo # "Mult"
        THEN Res(z, <<>>, "PARSER_ERROR_UNEXPECTEDMESSAGE")
      ELSE sendingCommit_parse(IF ev.pkt.type = "Confirm1" /\ z.keyAgreementAlgo = "Mult"
                               THEN bzrtp_computeS0MultiStreamMode(z) ELSE z, ev)
    ELSE IF ev.eventType = "TIMER" THEN
      Retransmit(z, "commit", NON_HELLO_MAX_RETRANSMISSION_NUMBER,
                 NON_HELLO_CAP_RETRANSMISSION_STEP)
    ELSE Res(z, <<>>, OK)
  ) : z \in {z_}})

\* state_discovery_waitingForHelloAck, a repeated Hello: a HelloACK answers it
waitingForHelloAck_helloACK(z_) ==
  The({(
    SendBuilt(z, bzrtp_packetBuild(z, bzrtp_createZrtpPacket(z, "HelloACK"),
                                   z.selfSequenceNumber))
  ) : z \in {z_}})

\* state_discovery_waitingForHelloAck, HelloACK or Commit after the parse
waitingForHelloAck_parsed(z, ev, pr_) ==
  The({(
    IF pr.ret # OK THEN Res(z, <<>>, pr.ret)
    ELSE IF ev.pkt.type = "HelloACK" THEN
      state_keyAgreement_sendingCommit(
        Enter([z EXCEPT !.peerSequenceNumber = ev.pkt.seq, !.timer.status = BZRTP_TIMER_OFF],
              "sendingCommit"),
        InitEvent)
    ELSE bzrtp_turnIntoResponder([z EXCEPT !.peerSequenceNumber = ev.pkt.seq], ev.pkt)
  ) : pr \in {pr_}})

\* state_discovery_waitingForHelloAck
state_discovery_waitingForHelloAck(z_, ev) ==
  The({(
    IF ev.eventType = "MESSAGE" THEN
      IF bzrtp_packetCheck(ev.pkt, z.peerSequenceNumber) # OK
        THEN Res(z, <<>>, bzrtp_packetCheck(ev.pkt, z.peerSequenceNumber))
      ELSE IF ev.pkt.type \notin {"Hello", "HelloACK", "Commit"}
        THEN Res(z, <<>>, "PARSER_ERROR_UNEXPECTEDMESSAGE")
      ELSE IF ev.pkt.type = "Hello" THEN
        Repetition(z, ev, "hello",
                   waitingForHelloAck_helloACK([z EXCEPT !.peerSequenceNumber = ev.uaf]))
      ELSE waitingForHelloAck_parsed(z, ev, bzrtp_packetParser(z, ev.pkt))
    ELSE IF ev.eventType = "TIMER" THEN
      Retransmit(z, "hello", HELLO_MAX_RETRANSMISSION_NUMBER, HELLO_CAP_RETRANSMISSION_STEP)
    ELSE Res(z, <<>>, OK)
  ) : z \in {z_}})

\* state_discovery_waitingForHello, the answer to the Hello went out: the
\* Commit follows
waitingForHello_commit(r_) ==
  The({(
    IF r.ret # OK THEN r
    ELSE Prepend(r.out, state_keyAgreement_sendingCommit(Enter(r.z, "sendingCommit"), InitEvent))
  ) : r \in {r_}})

waitingForHello_parsed(z, ev, pr_) ==
  The({(
    IF pr.ret # OK THEN Res(z, <<>>, pr.ret)
    ELSE waitingForHello_commit(
           bzrtp_responseToHelloMessage([z EXCEPT !.peerSequenceNumber = ev.pkt.seq], ev.pkt))
  ) : pr \in {pr_}})

\* state_discovery_waitingForHello
state_discovery_waitingForHello(z_, ev) ==
  The({(
    IF ev.eventType = "MESSAGE" THEN
      IF bzrtp_packetCheck(ev.pkt, z.peerSequenceNumber) # OK
        THEN Res(z, <<>>, bzrtp_packetCheck(ev.pkt, z.peerSequenceNumber))
      ELSE IF ev.pkt.type # "Hello" THEN Res(z, <<>>, "PARSER_ERROR_UNEXPECTEDMESSAGE")
      ELSE waitingForHello_parsed(z, ev, bzrtp_packetParser(z, ev.pkt))
    ELSE Res(z, <<>>, OK)
  ) : z \in {z_}})

\* state_discovery_init, the answer to the Hello went out
discovery_init_next(r_) ==
  The({(
    IF r.ret # OK THEN r ELSE Res(Enter(r.z, "waitingForHelloAck"), r.out, OK)
  ) : r \in {r_}})

\* state_discovery_init, Hello or HelloACK after the parse
discovery_init_parsed(z, ev, pr_) ==
  The({(
    IF pr.ret # OK THEN Res(z, <<>>, pr.ret)
    ELSE IF ev.pkt.type = "Hello" THEN
      discovery_init_next(
        bzrtp_responseToHelloMessage([z EXCEPT !.peerSequenceNumber = ev.pkt.seq], ev.pkt))
    ELSE Res(Enter([z EXCEPT !.peerSequenceNumber = ev.pkt.seq,
                             !.timer.status = BZRTP_TIMER_OFF], "waitingForHello"),
             <<>>, OK)
  ) : pr \in {pr_}})

\* state_discovery_init, INIT: the Hello is built and stored, the timer is
\* set to send it at its first tick
discovery_init_hello(z, b_) ==
  The({(
    IF b.ret # OK THEN Res(z, <<>>, OK)
    ELSE Res([z EXCEPT !.selfPackets.hello = b.pkt,
                       !.timer = TimerOn(HELLO_BASE_RETRANSMISSION_STEP),
                       !.selfSequenceNumber = Inc(@)],
             <<>>, OK)
  ) : b \in {b_}})

\* state_discovery_init whose INIT branch does not look at the stored Hello
state_discovery_init_again(z_, ev) ==
  The({(
    IF ev.eventType = "INIT" THEN
      discovery_init_hello(z, bzrtp_packetBuild(z, bzrtp_createZrtpPacket(z, "Hello"),
                                                z.selfSequenceNumber))
    ELSE IF ev.eventType = "MESSAGE" THEN
      IF bzrtp_packetCheck(ev.pkt, z.peerSequenceNumber) # OK
        THEN Res(z, <<>>, bzrtp_packetCheck(ev.pkt, z.peerSequenceNumber))
      ELSE IF ev.pkt.type \notin {"Hello", "HelloACK"}
        THEN Res(z, <<>>, "PARSER_ERROR_UNEXPECTEDMESSAGE")
      ELSE discovery_init_parsed(z, ev, bzrtp_packetParser(z, ev.pkt))
    ELSE IF ev.eventType = "TIMER" THEN
      Retransmit(z, "hello", HELLO_MAX_RETRANSMISSION_NUMBER + 1, HELLO_CAP_RETRANSMISSION_STEP)
    ELSE Res(z, <<>>, OK)
  ) : z \in {z_}})

\* state_discovery_init
state_discovery_init(z_, ev) ==
  The({(
    IF ev.eventType = "INIT" /\ z.selfPackets.hello = NoPacket THEN
      discovery_init_hello(z, bzrtp_packetBuild(z, bzrtp_createZrtpPacket(z, "Hello"),
                                                z.selfSequenceNumber))
    ELSE IF ev.eventType = "MESSAGE" THEN
      IF bzrtp_packetCheck(ev.pkt, z.peerSequenceNumber) # OK
        THEN Res(z, <<>>, bzrtp_packetCheck(ev.pkt, z.peerSequenceNumber))
      ELSE IF ev.pkt.type \notin {"Hello", "HelloACK"}
        THEN Res(z, <<>>, "PARSER_ERROR_UNEXPECTEDMESSAGE")
      ELSE discovery_init_parsed(z, ev, bzrtp_packetParser(z, ev.pkt))
    ELSE IF ev.eventType = "TIMER" THEN
      Retransmit(z, "hello", HELLO_MAX_RETRANSMISSION_NUMBER + 1, HELLO_CAP_RETRANSMISSION_STEP)
    ELSE Res(z, <<>>, OK)
  ) : z \in {z_}})

\* the call through the stateMachine function pointer of the channel
stateMachine(z_, ev) ==
  The({(
    CASE z.state = "discovery_init" -> state_discovery_init(z, ev)
      [] z.state = "waitingForHello" -> state_discovery_waitingForHello(z, ev)
      [] z.state = "waitingForHelloAck" -> state_discovery_waitingForHelloAck(z, ev)
      [] z.state = "sendingCommit" -> state_keyAgreement_sendingCommit(z, ev)
      [] z.state = "responderSendingDHPart1" -> state_keyAgreement_responderSendingDHPart1(z, ev)
      [] z.state = "initiatorSendingDHPart2" -> state_keyAgreement_initiatorSendingDHPart2(z, ev)
      [] z.state = "responderSendingConfirm1" -> state_confirmation_responderSendingConfirm1(z, ev)
      [] z.state = "initiatorSendingConfirm2" -> state_confirmation_initiatorSendingConfirm2(z, ev)
      [] z.state = "secure" -> state_secure(z, ev)
  ) : z \in {z_}})

\* ------------------------------------------------------------------------
\* The system: two endpoints and the network between them
\* ------------------------------------------------------------------------
\* Fragmentation (bzrtp_packetBuild) and reassembly (bzrtp_packetCheck)
\* ------------------------------------------------------------------------

\* the longest message that is fragmented, in 32-bit words
MaxMessageWords == 6

ZRTP_MIN_PACKET_LENGTH == 28
ZRTP_MAX_PACKET_LENGTH == 3072
\* packet header; packet header and CRC; the same two of a fragment
ZRTP_PACKET_HEADER_LENGTH == 12
ZRTP_PACKET_OVERHEAD == 16
ZRTP_FRAGMENTEDPACKET_HEADER_LENGTH == 20
ZRTP_FRAGMENTEDPACKET_OVERHEAD == 24

\* a byte of a buffer that malloc returned and nothing wrote
Unwritten == 0 - 1

\* the shortest message some MTU of at least ZRTP_MIN_PACKET_LENGTH fragments
MinMessageWords == (ZRTP_MIN_PACKET_LENGTH + 1 - ZRTP_PACKET_OVERHEAD + 3) \div 4

\* the value of selfMessageSequenceNumber when the message is built
MessageIds == {1, 2}

\* The bytes of a message of the given length: the preamble 0x505a, the
\* length in words on 16 bits, and then bytes that all differ.
zrtpMessageSetHeader(words) ==
  [i \in 1..(4 * words) |->
     CASE i = 1 -> 80
       [] i = 2 -> 90
       [] i = 3 -> words \div 256
       [] i = 4 -> words % 256
       [] OTHER -> 100 + i]

\* the 16 bits written by (x>>10)&0xFF and (x>>2)&0xFF
WordsOf(x) == (x \div 4) % 65536

\* size of the fragment at the given offset: min of (remaining part,
\* mtu - ZRTP_FRAGMENTEDPACKET_OVERHEAD)
fragmentSize(messageLength, mtu, offset) ==
  IF messageLength - offset < mtu - ZRTP_FRAGMENTEDPACKET_OVERHEAD
    THEN messageLength - offset
    ELSE mtu - ZRTP_FRAGMENTEDPACKET_OVERHEAD

\* one fragment packet: the four fields after the packet header, the bytes
\* of the fragment, and the length of the packet
fragmentPacket(msg, mtu, id, offset) ==
  LET size == fragmentSize(Len(msg), mtu, offset)
  IN [messageId |-> id,
      messageTotalLength |-> WordsOf(Len(msg)),
      offset |-> WordsOf(offset),
      fragmentLength |-> WordsOf(size),
      data |-> SubSeq(msg, offset + 1, offset + size),
      inputLength |-> ZRTP_FRAGMENTEDPACKET_OVERHEAD + size]

\* the loop of bzrtp_packetBuild over the message, from the given offset
RECURSIVE fragmentLoop(_, _, _, _)
fragmentLoop(msg, mtu, id, offset) ==
  IF offset < Len(msg)
    THEN <<fragmentPacket(msg, mtu, id, offset)>>
          \o fragmentLoop(msg, mtu, id, offset + fragmentSize(Len(msg), mtu, offset))
    ELSE <<>>

\* we need to fragment this message
needsFragmentation(msg, mtu) == mtu < Len(msg) + ZRTP_PACKET_OVERHEAD

\* the fragments bzrtp_packetBuild attaches to the packet (none when the
\* packet fits the MTU)
bzrtp_packetBuild_fragments(msg, mtu, id) ==
  IF needsFragmentation(msg, mtu) THEN fragmentLoop(msg, mtu, id, 0) ELSE <<>>

\* incomingFragmentedPacket of a channel that received no fragment
EmptyReassembly ==
  [messageId |-> 0, messageLength |-> 0, packetString |-> <<>>, fragments |-> <<>>]

\* memcpy of the fragment into the message part of packetString, at 4*offset
copyFragment(packetString, f) ==
  [i \in 1..Len(packetString) |->
     IF 4 * f.offset < i /\ i <= 4 * f.offset + Len(f.data)
       THEN f.data[i - 4 * f.offset]
       ELSE packetString[i]]

\* the fragment list with the fragment put before place i
insertBefore(fragments, i, f) ==
  SubSeq(fragments, 1, i - 1)
    \o <<[offset |-> f.offset, length |-> f.fragmentLength]>>
    \o SubSeq(fragments, i, Len(fragments))

\* The walk over the fragments already there, from place i: the fragment is
\* inserted before the first one with a larger offset and copied, dropped
\* when one with the same offset is there, appended and copied otherwise.
RECURSIVE insertFragment(_, _, _)
insertFragment(slot, f, i) ==
  IF i > Len(slot.fragments)
    THEN [slot EXCEPT !.fragments = insertBefore(@, i, f),
                      !.packetString = copyFragment(@, f)]
    ELSE IF f.offset < slot.fragments[i].offset
      THEN [slot EXCEPT !.fragments = insertBefore(@, i, f),
                        !.packetString = copyFragment(@, f)]
      ELSE IF f.offset = slot.fragments[i].offset
        THEN slot
        ELSE insertFragment(slot, f, i + 1)

\* the walk copies the fragment: no fragment of the list has its offset
copiesFragment(slot, f) ==
  \A i \in 1..Len(slot.fragments) : slot.fragments[i].offset # f.offset

\* the total length already received
RECURSIVE receivedLength(_)
receivedLength(fragments) ==
  IF fragments = <<>> THEN 0
  ELSE (Head(fragments).length + receivedLength(Tail(fragments))) % 65536

\* a new message: the old fragments are dropped and packetString allocated
newReassembly(f) ==
  [messageId |-> f.messageId,
   messageLength |-> f.messageTotalLength,
   packetString |-> [i \in 1..(4 * f.messageTotalLength) |-> Unwritten],
   fragments |-> <<>>]

\* what the checks of the message header say of a reassembled message
messageHeaderCheck(message) ==
  IF Len(message) < 2 \/ message[1] # 80 \/ message[2] # 90
    THEN "BZRTP_PARSER_ERROR_INVALIDMESSAGE"
    ELSE OK

\* bzrtp_packetCheck on a fragment packet whose header and CRC are right:
\* the reassembly slot after the call, the exit code, and the message part
\* of the packet handed on when the message is complete.
bzrtp_packetCheck_fragment(slot, f) ==
  IF f.inputLength < ZRTP_MIN_PACKET_LENGTH \/ f.inputLength > ZRTP_MAX_PACKET_LENGTH
    THEN [slot |-> slot, exitCode |-> "BZRTP_PARSER_ERROR_INVALIDPACKET", message |-> <<>>]
  ELSE IF slot.messageId > f.messageId
    THEN [slot |-> slot, exitCode |-> "BZRTP_PARSER_ERROR_OUTOFORDER", message |-> <<>>]
  ELSE
    LET stored == IF slot.messageId < f.messageId THEN newReassembly(f) ELSE slot
        merged == insertFragment(stored, f, 1)
    IN IF copiesFragment(stored, f) /\ 4 * f.offset + Len(f.data) > Len(stored.packetString)
         THEN [slot |-> slot, exitCode |-> "SIGSEGV", message |-> <<>>]
       ELSE IF receivedLength(merged.fragments) = f.messageTotalLength
         THEN [slot |-> [merged EXCEPT !.fragments = <<>>, !.messageId = 0],
               exitCode |-> messageHeaderCheck(merged.packetString),
               message |-> merged.packetString]
         ELSE [slot |-> merged,
               exitCode |-> "BZRTP_PARSER_INFO_PACKETFRAGMENT",
               message |-> <<>>]

\* no message is being fragmented
NoFragmentation ==
  [msg |-> <<>>, mtu |-> 0, messageId |-> 0, fragments |-> <<>>,
   pending |-> {}, last |-> 0, slot |-> EmptyReassembly, exitCode |-> OK,
   message |-> <<>>, seen |-> 0]

\* ------------------------------------------------------------------------
\* ch[e]    the channel and session context of endpoint e
\* net[e]   the packets on their way to endpoint e, oldest first
\* sent[e]  the type and sequence number of the packets e handed to its send
\*          callback, in the order of the calls
\* wire     the message types in the order of their first send
\* ret[e]   the return code of the last call of e's state machine
\* fires    the timer ticks that sent a packet again
\* faults   the packets the network lost, duplicated or altered
\* frag     the message one channel fragments and the reassembly slot of
\*          the channel that receives the fragments
\* ------------------------------------------------------------------------
\* The packet codec, field by field (packetParser.c)
\* ------------------------------------------------------------------------
\* The message structures of the eight message types and their layout in
\* the packet string.  A message on the wire is its type, its length in
\* bytes and the sequence of its fields; a field the code moves with memcpy
\* is one cell, a field the code packs into bits is the byte it packs.

\* signature blocks of a Confirm message run up to this many words
MaxSigLen == 2

ZRTP_HELLOMESSAGE_FIXED_LENGTH == 88
ZRTP_HELLOACKMESSAGE_FIXED_LENGTH == 12
ZRTP_COMMITMESSAGE_FIXED_LENGTH == 84
ZRTP_DHPARTMESSAGE_FIXED_LENGTH == 84
ZRTP_CONFIRMMESSAGE_FIXED_LENGTH == 76
ZRTP_CONF2ACKMESSAGE_FIXED_LENGTH == 12

ZRTP_UNSET_ALGO == "ZRTP_UNSET_ALGO"
ZRTP_HASH_TYPE == "ZRTP_HASH_TYPE"
ZRTP_CIPHERBLOCK_TYPE == "ZRTP_CIPHERBLOCK_TYPE"
ZRTP_AUTHTAG_TYPE == "ZRTP_AUTHTAG_TYPE"
ZRTP_KEYAGREEMENT_TYPE == "ZRTP_KEYAGREEMENT_TYPE"
ZRTP_SAS_TYPE == "ZRTP_SAS_TYPE"

\* the algorithms of the model, by the name of their code: the 4 characters
\* that name them on the wire, and their category
AlgoString ==
  [ZRTP_HASH_S256 |-> "S256", ZRTP_HASH_S384 |-> "S384",
   ZRTP_CIPHER_AES1 |-> "AES1", ZRTP_CIPHER_AES3 |-> "AES3",
   ZRTP_AUTHTAG_HS32 |-> "HS32", ZRTP_AUTHTAG_SK32 |-> "SK32",
   ZRTP_KEYAGREEMENT_DH2k |-> "DH2k", ZRTP_KEYAGREEMENT_DH3k |-> "DH3k",
   ZRTP_KEYAGREEMENT_Prsh |-> "Prsh", ZRTP_KEYAGREEMENT_Mult |-> "Mult",
   ZRTP_SAS_B32 |-> "B32 ", ZRTP_SAS_B256 |-> "B256"]

AlgoType ==
  [ZRTP_HASH_S256 |-> ZRTP_HASH_TYPE, ZRTP_HASH_S384 |-> ZRTP_HASH_TYPE,
   ZRTP_CIPHER_AES1 |-> ZRTP_CIPHERBLOCK_TYPE, ZRTP_CIPHER_AES3 |-> ZRTP_CIPHERBLOCK_TYPE,
   ZRTP_AUTHTAG_HS32 |-> ZRTP_AUTHTAG_TYPE, ZRTP_AUTHTAG_SK32 |-> ZRTP_AUTHTAG_TYPE,
   ZRTP_KEYAGREEMENT_DH2k |-> ZRTP_KEYAGREEMENT_TYPE, ZRTP_KEYAGREEMENT_DH3k |-> ZRTP_KEYAGREEMENT_TYPE,
   ZRTP_KEYAGREEMENT_Prsh |-> ZRTP_KEYAGREEMENT_TYPE, ZRTP_KEYAGREEMENT_Mult |-> ZRTP_KEYAGREEMENT_TYPE,
   ZRTP_SAS_B32 |-> ZRTP_SAS_TYPE, ZRTP_SAS_B256 |-> ZRTP_SAS_TYPE]

bzrtp_cryptoAlgoTypeIntToString(algo) ==
  IF algo \in DOMAIN AlgoString THEN AlgoString[algo] ELSE "    "

bzrtp_cryptoAlgoTypeStringToInt(str, algoType) ==
  IF \E a \in DOMAIN AlgoString : AlgoString[a] = str /\ AlgoType[a] = algoType
    THEN CHOOSE a \in DOMAIN AlgoString : AlgoString[a] = str /\ AlgoType[a] = algoType
    ELSE ZRTP_UNSET_ALGO

\* the algorithm every endpoint must support, by category
mandatoryCryptoType ==
  [ZRTP_HASH_TYPE |-> "ZRTP_HASH_S256",
   ZRTP_CIPHERBLOCK_TYPE |-> "ZRTP_CIPHER_AES1",
   ZRTP_AUTHTAG_TYPE |-> "ZRTP_AUTHTAG_HS32",
   ZRTP_KEYAGREEMENT_TYPE |-> "ZRTP_KEYAGREEMENT_DH3k",
   ZRTP_SAS_TYPE |-> "ZRTP_SAS_B32"]

\* the list with the mandatory algorithm of its category in it: appended
\* when absent, in place of the last entry when the list is full
bzrtp_addMandatoryCryptoTypesIfNeeded(algoType, algoTypes) ==
  IF \E i \in 1..Len(algoTypes) : algoTypes[i] = mandatoryCryptoType[algoType]
    THEN algoTypes
    ELSE IF Len(algoTypes) < 7
      THEN Append(algoTypes, mandatoryCryptoType[algoType])
      ELSE [algoTypes EXCEPT ![7] = mandatoryCryptoType[algoType]]

bzrtp_computeCommitMessageVariableLength(keyAgreementAlgo) ==
  CASE keyAgreementAlgo \in {"ZRTP_KEYAGREEMENT_DH2k", "ZRTP_KEYAGREEMENT_DH3k"} -> 32
    [] keyAgreementAlgo = "ZRTP_KEYAGREEMENT_Mult" -> 16
    [] keyAgreementAlgo = "ZRTP_KEYAGREEMENT_Prsh" -> 24
    [] OTHER -> 0

\* bzrtp_computeKeyAgreementPublicValueLength, in bytes
publicValueLength(keyAgreementAlgo) ==
  CASE keyAgreementAlgo = "ZRTP_KEYAGREEMENT_DH2k" -> 256
    [] keyAgreementAlgo = "ZRTP_KEYAGREEMENT_DH3k" -> 384
    [] OTHER -> 0

Min(a, b) == IF a < b THEN a ELSE b

\* algorithm names on the wire and back, entry by entry
AlgoStrings(list, n) == [i \in 1..n |-> bzrtp_cryptoAlgoTypeIntToString(list[i])]
AlgoInts(cells, from, n, algoType) ==
  [i \in 1..n |-> bzrtp_cryptoAlgoTypeStringToInt(cells[from + i], algoType)]

\* a message on the wire
WireMessage(type, length, content) ==
  [messageType |-> type, messageLength |-> length, content |-> content]

\* the bytes the trailing MAC of a message covers: all but the MAC
MACcovered(w) ==
  [w EXCEPT !.content = SubSeq(w.content, 1, Len(w.content) - 1)]

\* the MAC written into the last cell of the message
withMAC(w, MACkey) ==
  [w EXCEPT !.content = Append(w.content, HMAC(MACkey, w))]

\* a packet a channel keeps: the message structure and the message bytes
StoredPacket(messageData, packetString) ==
  [messageData |-> messageData, packetString |-> packetString]
NoStoredPacket ==
  StoredPacket([messageType |-> "none"], WireMessage("none", 0, <<>>))
IsNull(packet) == packet.messageData.messageType = "none"

\* what the builder and the parser read of a channel context: the hash
\* chain of the channel, its role, its key agreement, the Confirm keys, the
\* peer packets it stored and its own Hello
CodecContext(h0, role, keyAgreementAlgo) ==
  [selfH |-> [i \in 0..3 |-> h0 + 10 * i],
   role |-> role,
   keyAgreementAlgo |-> keyAgreementAlgo,
   zrtpkeyi |-> "zrtpkeyi", zrtpkeyr |-> "zrtpkeyr",
   mackeyi |-> "mackeyi", mackeyr |-> "mackeyr",
   peerHelloHash |-> <<"NULL">>,
   peerPackets |-> [hello |-> NoStoredPacket, commit |-> NoStoredPacket,
                    dhpart |-> NoStoredPacket],
   selfHello |-> NoStoredPacket]

\* bzrtp_packetBuild, the part of each message type.  The result is the
\* message on the wire, or the error code of the builder.
buildHello(m, ctx) ==
  withMAC(WireMessage("Hello   ",
            ZRTP_HELLOMESSAGE_FIXED_LENGTH + 4 * (m.hc + m.cc + m.ac + m.kc + m.sc),
            <<m.version, m.clientIdentifier, m.H3, m.ZID,
              ((m.S % 2) * 64 + (m.M % 2) * 32 + (m.P % 2) * 16) % 128,
              m.hc % 16,
              ((m.cc * 16) % 256) + (m.ac % 16),
              ((m.kc * 16) % 256) + (m.sc % 16)>>
            \o AlgoStrings(m.supportedHash, m.hc)
            \o AlgoStrings(m.supportedCipher, m.cc)
            \o AlgoStrings(m.supportedAuthTag, m.ac)
            \o AlgoStrings(m.supportedKeyAgreement, m.kc)
            \o AlgoStrings(m.supportedSas, m.sc)),
          ctx.selfH[2])

buildCommit(m, ctx) ==
  IF bzrtp_computeCommitMessageVariableLength(m.keyAgreementAlgo) = 0
    THEN "BZRTP_BUILDER_ERROR_INVALIDMESSAGE"
    ELSE withMAC(WireMessage("Commit  ",
           ZRTP_COMMITMESSAGE_FIXED_LENGTH
             + bzrtp_computeCommitMessageVariableLength(m.keyAgreementAlgo),
           <<m.H2, m.ZID,
             bzrtp_cryptoAlgoTypeIntToString(m.hashAlgo),
             bzrtp_cryptoAlgoTypeIntToString(m.cipherAlgo),
             bzrtp_cryptoAlgoTypeIntToString(m.authTagAlgo),
             bzrtp_cryptoAlgoTypeIntToString(m.keyAgreementAlgo),
             bzrtp_cryptoAlgoTypeIntToString(m.sasAlgo)>>
           \o (CASE m.keyAgreementAlgo = "ZRTP_KEYAGREEMENT_Prsh" -> <<m.nonce, m.keyID>>
                 [] m.keyAgreementAlgo = "ZRTP_KEYAGREEMENT_Mult" -> <<m.nonce>>
                 [] OTHER -> <<m.hvi>>)),
         ctx.selfH[1])

buildDHPart(m, ctx) ==
  IF publicValueLength(ctx.keyAgreementAlgo) = 0
    THEN "BZRTP_BUILDER_ERROR_INVALIDCONTEXT"
    ELSE withMAC(WireMessage(IF m.messageType = "DHPart1" THEN "DHPart1 " ELSE "DHPart2 ",
           ZRTP_DHPARTMESSAGE_FIXED_LENGTH
             + publicValueLength(ctx.keyAgreementAlgo),
           <<m.H1, m.rs1ID, m.rs2ID, m.auxsecretID, m.pbxsecretID, m.pv>>),
         ctx.selfH[0])

\* the plain text of a Confirm message: H0, an unused byte, the 9 bits of
\* sig_len, the flags, the cache expiration interval as 4 bytes, and the
\* signature block
confirmPlain(m) ==
  <<m.H0, 0, (m.sig_len \div 256) % 2, m.sig_len % 256,
    (m.E % 2) * 8 + (m.V % 2) * 4 + (m.A % 2) * 2 + (m.D % 2),
    (m.cacheExpirationInterval \div 16777216) % 256,
    (m.cacheExpirationInterval \div 65536) % 256,
    (m.cacheExpirationInterval \div 256) % 256,
    m.cacheExpirationInterval % 256>>
  \o (IF m.sig_len > 0
        THEN <<m.signatureBlockType>> \o SubSeq(m.signatureBlock, 1, m.sig_len - 1)
        ELSE <<>>)

buildConfirm(m, ctx) ==
  LET confirmMessageKey == IF ctx.role = INITIATOR THEN ctx.zrtpkeyi ELSE ctx.zrtpkeyr
      confirmMessageMacKey == IF ctx.role = INITIATOR THEN ctx.mackeyi ELSE ctx.mackeyr
      cipherText == cipherEncrypt(<<confirmMessageKey, m.CFBIV>>, confirmPlain(m))
  IN IF confirmMessageKey = "NULL" \/ confirmMessageMacKey = "NULL"
       THEN "BZRTP_BUILDER_ERROR_INVALIDCONTEXT"
       ELSE WireMessage(IF m.messageType = "Confirm1" THEN "Confirm1" ELSE "Confirm2",
              ZRTP_CONFIRMMESSAGE_FIXED_LENGTH + m.sig_len * 4,
              <<HMAC(confirmMessageMacKey, cipherText), m.CFBIV, cipherText>>)

codecBuild(m, ctx) ==
  CASE m.messageType = "Hello" -> buildHello(m, ctx)
    [] m.messageType = "HelloACK" ->
         WireMessage("HelloACK", ZRTP_HELLOACKMESSAGE_FIXED_LENGTH, <<>>)
    [] m.messageType = "Commit" -> buildCommit(m, ctx)
    [] m.messageType \in {"DHPart1", "DHPart2"} -> buildDHPart(m, ctx)
    [] m.messageType \in {"Confirm1", "Confirm2"} -> buildConfirm(m, ctx)
    [] m.messageType = "Conf2ACK" ->
         WireMessage("Conf2ACK", ZRTP_CONF2ACKMESSAGE_FIXED_LENGTH, <<>>)

\* bzrtp_packetParser, the part of each message type.  The result is the
\* exit code and, when it is 0, the message structure.
Parsed(messageData) == [exitCode |-> OK, messageData |-> messageData]
Failed(exitCode) == [exitCode |-> exitCode, messageData |-> [messageType |-> "none"]]

\* the MAC of a stored packet opens under key
storedMACMatches(packet, key) ==
  HMAC(key, MACcovered(packet.packetString)) = packet.messageData.MAC

codecParseHello(w, ctx) ==
  LET c == w.content
      hc == Min(c[6] % 16, 7)
      cc == Min((c[7] \div 16) % 16, 7)
      ac == Min(c[7] % 16, 7)
      kc == Min((c[8] \div 16) % 16, 7)
      sc == Min(c[8] % 16, 7)
      supportedHash ==
        bzrtp_addMandatoryCryptoTypesIfNeeded(ZRTP_HASH_TYPE,
          AlgoInts(c, 8, hc, ZRTP_HASH_TYPE))
      supportedCipher ==
        bzrtp_addMandatoryCryptoTypesIfNeeded(ZRTP_CIPHERBLOCK_TYPE,
          AlgoInts(c, 8 + hc, cc, ZRTP_CIPHERBLOCK_TYPE))
      supportedAuthTag ==
        bzrtp_addMandatoryCryptoTypesIfNeeded(ZRTP_AUTHTAG_TYPE,
          AlgoInts(c, 8 + hc + cc, ac, ZRTP_AUTHTAG_TYPE))
      supportedKeyAgreement ==
        bzrtp_addMandatoryCryptoTypesIfNeeded(ZRTP_KEYAGREEMENT_TYPE,
          AlgoInts(c, 8 + hc + cc + ac, kc, ZRTP_KEYAGREEMENT_TYPE))
      supportedSas ==
        bzrtp_addMandatoryCryptoTypesIfNeeded(ZRTP_SAS_TYPE,
          AlgoInts(c, 8 + hc + cc + ac + kc, sc, ZRTP_SAS_TYPE))
  IN IF ctx.peerHelloHash # <<"NULL">> /\ ctx.peerHelloHash # <<"sha256", w>>
       THEN Failed("BZRTP_ERROR_HELLOHASH_MISMATCH")
     ELSE IF w.messageLength
               # ZRTP_HELLOMESSAGE_FIXED_LENGTH + 4 * (hc + cc + ac + kc + sc)
       THEN Failed("BZRTP_PARSER_ERROR_INVALIDMESSAGE")
     ELSE Parsed(
       [messageType |-> "Hello",
        version |-> c[1], clientIdentifier |-> c[2], H3 |-> c[3], ZID |-> c[4],
        S |-> (c[5] \div 64) % 2, M |-> (c[5] \div 32) % 2, P |-> (c[5] \div 16) % 2,
        hc |-> Len(supportedHash), cc |-> Len(supportedCipher),
        ac |-> Len(supportedAuthTag), kc |-> Len(supportedKeyAgreement),
        sc |-> Len(supportedSas),
        supportedHash |-> supportedHash, supportedCipher |-> supportedCipher,
        supportedAuthTag |-> supportedAuthTag,
        supportedKeyAgreement |-> supportedKeyAgreement,
        supportedSas |-> supportedSas,
        MAC |-> c[8 + hc + cc + ac + kc + sc + 1]])

codecParseCommit(w, ctx) ==
  LET c == w.content
      keyAgreementAlgo == bzrtp_cryptoAlgoTypeStringToInt(c[6], ZRTP_KEYAGREEMENT_TYPE)
      variableLength == bzrtp_computeCommitMessageVariableLength(keyAgreementAlgo)
      shared == keyAgreementAlgo \in {"ZRTP_KEYAGREEMENT_Prsh", "ZRTP_KEYAGREEMENT_Mult"}
  IN IF IsNull(ctx.peerPackets.hello)
       THEN Failed("BZRTP_PARSER_ERROR_UNEXPECTEDMESSAGE")
     ELSE IF SHA256(c[1]) # ctx.peerPackets.hello.messageData.H3
       THEN Failed("BZRTP_PARSER_ERROR_UNMATCHINGHASHCHAIN")
     ELSE IF ~storedMACMatches(ctx.peerPackets.hello, c[1])
       THEN Failed("BZRTP_PARSER_ERROR_UNMATCHINGMAC")
     ELSE IF variableLength = 0
       THEN Failed("BZRTP_PARSER_ERROR_INVALIDMESSAGE")
     ELSE IF w.messageLength # ZRTP_COMMITMESSAGE_FIXED_LENGTH + variableLength
       THEN Failed("BZRTP_PARSER_ERROR_INVALIDMESSAGE")
     ELSE Parsed(
       [messageType |-> "Commit",
        H2 |-> c[1], ZID |-> c[2],
        hashAlgo |-> bzrtp_cryptoAlgoTypeStringToInt(c[3], ZRTP_HASH_TYPE),
        cipherAlgo |-> bzrtp_cryptoAlgoTypeStringToInt(c[4], ZRTP_CIPHERBLOCK_TYPE),
        authTagAlgo |-> bzrtp_cryptoAlgoTypeStringToInt(c[5], ZRTP_AUTHTAG_TYPE),
        keyAgreementAlgo |-> keyAgreementAlgo,
        sasAlgo |-> bzrtp_cryptoAlgoTypeStringToInt(c[7], ZRTP_SAS_TYPE),
        nonce |-> IF shared THEN c[8] ELSE 0,
        keyID |-> IF keyAgreementAlgo = "ZRTP_KEYAGREEMENT_Prsh" THEN c[9] ELSE 0,
        hvi |-> IF shared THEN <<>> ELSE c[8],
        MAC |-> c[Len(c)]])

\* the hash of the DHPart2 message and the Hello message of the responder
computedHvi(dhpart2, selfHello) == <<"hvi", dhpart2, selfHello>>

codecParseDHPart(w, ctx) ==
  LET c == w.content
      pvLength == publicValueLength(ctx.keyAgreementAlgo)
  IN IF pvLength = 0
       THEN Failed("BZRTP_PARSER_ERROR_INVALIDCONTEXT")
     ELSE IF w.messageLength # ZRTP_DHPARTMESSAGE_FIXED_LENGTH + pvLength
       THEN Failed("BZRTP_PARSER_ERROR_INVALIDMESSAGE")
     ELSE IF ctx.role = RESPONDER /\ IsNull(ctx.peerPackets.commit)
       THEN Failed("BZRTP_PARSER_ERROR_UNEXPECTEDMESSAGE")
     ELSE IF ctx.role = RESPONDER
             /\ SHA256(c[1]) # ctx.peerPackets.commit.messageData.H2
       THEN Failed("BZRTP_PARSER_ERROR_UNMATCHINGHASHCHAIN")
     ELSE IF ctx.role = RESPONDER /\ ~storedMACMatches(ctx.peerPackets.commit, c[1])
       THEN Failed("BZRTP_PARSER_ERROR_UNMATCHINGMAC")
     ELSE IF ctx.role = RESPONDER
             /\ computedHvi(w, ctx.selfHello.packetString)
                  # ctx.peerPackets.commit.messageData.hvi
       THEN Failed("BZRTP_PARSER_ERROR_UNMATCHINGHVI")
     ELSE IF ctx.role = INITIATOR /\ IsNull(ctx.peerPackets.hello)
       THEN Failed("BZRTP_PARSER_ERROR_UNEXPECTEDMESSAGE")
     ELSE IF ctx.role = INITIATOR
             /\ SHA256(SHA256(c[1])) # ctx.peerPackets.hello.messageData.H3
       THEN Failed("BZRTP_PARSER_ERROR_UNMATCHINGHASHCHAIN")
     ELSE IF ctx.role = INITIATOR
             /\ ~storedMACMatches(ctx.peerPackets.hello, SHA256(c[1]))
       THEN Failed("BZRTP_PARSER_ERROR_UNMATCHINGMAC")
     ELSE Parsed(
       [messageType |-> IF w.messageType = "DHPart1 " THEN "DHPart1" ELSE "DHPart2",
        H1 |-> c[1], rs1ID |-> c[2], rs2ID |-> c[3], auxsecretID |-> c[4],
        pbxsecretID |-> c[5], pv |-> c[6], MAC |-> c[7]])

codecParseConfirm(w, ctx) ==
  LET c == w.content
      confirmMessageKey == IF ctx.role = RESPONDER THEN ctx.zrtpkeyi ELSE ctx.zrtpkeyr
      confirmMessageMacKey == IF ctx.role = RESPONDER THEN ctx.mackeyi ELSE ctx.mackeyr
      opens == c[3][1] = <<confirmMessageKey, c[2]>>
      \* the plain text; under another key or IV the bytes are not the ones
      \* that were encrypted
      plain == IF opens THEN cipherDecrypt(<<confirmMessageKey, c[2]>>, c[3])
               ELSE <<0 - 1, 0, 0, 0, 0, 0, 0, 0, 0>>
      H0 == plain[1]
      shared == ctx.keyAgreementAlgo
                  \in {"ZRTP_KEYAGREEMENT_Prsh", "ZRTP_KEYAGREEMENT_Mult"}
      sig_len == (plain[3] % 2) * 256 + (plain[4] % 256)
  IN IF confirmMessageKey = "NULL" \/ confirmMessageMacKey = "NULL"
       THEN Failed("BZRTP_PARSER_ERROR_INVALIDCONTEXT")
     ELSE IF HMAC(confirmMessageMacKey, c[3]) # c[1]
       THEN Failed("BZRTP_PARSER_ERROR_UNMATCHINGCONFIRMMAC")
     ELSE IF shared /\ ctx.role = RESPONDER /\ IsNull(ctx.peerPackets.commit)
       THEN Failed("BZRTP_PARSER_ERROR_UNEXPECTEDMESSAGE")
     ELSE IF shared /\ ctx.role = RESPONDER
             /\ SHA256(SHA256(H0)) # ctx.peerPackets.commit.messageData.H2
       THEN Failed("BZRTP_PARSER_ERROR_UNMATCHINGHASHCHAIN")
     ELSE IF shared /\ ctx.role = RESPONDER
             /\ ~storedMACMatches(ctx.peerPackets.commit, SHA256(H0))
       THEN Failed("BZRTP_PARSER_ERROR_UNMATCHINGMAC")
     ELSE IF shared /\ ctx.role # RESPONDER /\ IsNull(ctx.peerPackets.hello)
       THEN Failed("BZRTP_PARSER_ERROR_UNEXPECTEDMESSAGE")
     ELSE IF shared /\ ctx.role # RESPONDER
             /\ SHA256(SHA256(SHA256(H0))) # ctx.peerPackets.hello.messageData.H3
       THEN Failed("BZRTP_PARSER_ERROR_UNMATCHINGHASHCHAIN")
     ELSE IF shared /\ ctx.role # RESPONDER
             /\ ~storedMACMatches(ctx.peerPackets.hello, SHA256(SHA256(H0)))
       THEN Failed("BZRTP_PARSER_ERROR_UNMATCHINGMAC")
     ELSE IF ~shared /\ IsNull(ctx.peerPackets.dhpart)
       THEN Failed("BZRTP_PARSER_ERROR_UNEXPECTEDMESSAGE")
     ELSE IF ~shared /\ SHA256(H0) # ctx.peerPackets.dhpart.messageData.H1
       THEN Failed("BZRTP_PARSER_ERROR_UNMATCHINGHASHCHAIN")
     ELSE IF ~shared /\ ~storedMACMatches(ctx.peerPackets.dhpart, H0)
       THEN Failed("BZRTP_PARSER_ERROR_UNMATCHINGMAC")
     ELSE Parsed(
       [messageType |-> w.messageType,
        confirm_mac |-> c[1], CFBIV |-> c[2], H0 |-> H0,
        sig_len |-> sig_len,
        E |-> (plain[5] \div 8) % 2, V |-> (plain[5] \div 4) % 2,
        A |-> (plain[5] \div 2) % 2, D |-> plain[5] % 2,
        cacheExpirationInterval |->
          plain[6] * 16777216 + plain[7] * 65536 + plain[8] * 256 + plain[9],
        signatureBlockType |-> IF sig_len > 0 THEN plain[10] ELSE "",
        signatureBlock |-> IF sig_len > 0 THEN SubSeq(plain, 11, 9 + sig_len) ELSE <<>>])

\* the message type of the message header, and the two messages that carry
\* nothing else
codecParse(w, ctx) ==
  CASE w.messageType = "Hello   " -> codecParseHello(w, ctx)
    [] w.messageType = "HelloACK" ->
         IF w.messageLength # ZRTP_HELLOACKMESSAGE_FIXED_LENGTH
           THEN Failed("BZRTP_PARSER_ERROR_INVALIDMESSAGE")
           ELSE Parsed([messageType |-> "HelloACK"])
    [] w.messageType = "Commit  " -> codecParseCommit(w, ctx)
    [] w.messageType \in {"DHPart1 ", "DHPart2 "} -> codecParseDHPart(w, ctx)
    [] w.messageType \in {"Confirm1", "Confirm2"} -> codecParseConfirm(w, ctx)
    [] w.messageType = "Conf2ACK" -> Parsed([messageType |-> "Conf2ACK"])
    [] OTHER -> Failed("BZRTP_PARSER_ERROR_INVALIDMESSAGE")

\* no codec experiment runs
NoCodec ==
  [step |-> "none", m |-> [messageType |-> "none"],
   snd |-> CodecContext(0, INITIATOR, ZRTP_UNSET_ALGO),
   rcv |-> CodecContext(0, RESPONDER, ZRTP_UNSET_ALGO),
   wire |-> WireMessage("none", 0, <<>>),
   parsed |-> Failed("none")]

\* The message structures bzrtp_createZrtpPacket makes, over the values
\* the host and the exchange put in them.
HelloMessage(h3, zid, M, P, hash, cipher, authTag, keyAgreement, sas) ==
  [messageType |-> "Hello", version |-> "1.10",
   clientIdentifier |-> "BZRTP", H3 |-> h3, ZID |-> zid,
   S |-> 0, M |-> M, P |-> P,
   hc |-> Len(hash), cc |-> Len(cipher), ac |-> Len(authTag),
   kc |-> Len(keyAgreement), sc |-> Len(sas),
   supportedHash |-> hash, supportedCipher |-> cipher,
   supportedAuthTag |-> authTag, supportedKeyAgreement |-> keyAgreement,
   supportedSas |-> sas, MAC |-> <<>>]

\* a Hello of a menu that holds every mandatory algorithm
DefaultHello(ctx, zid) ==
  HelloMessage(ctx.selfH[3], zid, 0, 0,
    <<"ZRTP_HASH_S256">>, <<"ZRTP_CIPHER_AES1">>, <<"ZRTP_AUTHTAG_HS32">>,
    <<"ZRTP_KEYAGREEMENT_DH3k", "ZRTP_KEYAGREEMENT_Mult">>, <<"ZRTP_SAS_B32">>)

CommitMessage(ctx, zid, hashAlgo, nonce, keyID, hvi) ==
  [messageType |-> "Commit", H2 |-> ctx.selfH[2], ZID |-> zid,
   hashAlgo |-> hashAlgo, cipherAlgo |-> "ZRTP_CIPHER_AES1",
   authTagAlgo |-> "ZRTP_AUTHTAG_HS32",
   keyAgreementAlgo |-> ctx.keyAgreementAlgo, sasAlgo |-> "ZRTP_SAS_B32",
   nonce |-> nonce, keyID |-> keyID, hvi |-> hvi, MAC |-> <<>>]

DHPartMessage(type, ctx, rs1ID, rs2ID, auxsecretID, pbxsecretID, pv) ==
  [messageType |-> type, H1 |-> ctx.selfH[1],
   rs1ID |-> rs1ID, rs2ID |-> rs2ID, auxsecretID |-> auxsecretID,
   pbxsecretID |-> pbxsecretID, pv |-> pv, MAC |-> <<>>]

ConfirmMessage(type, ctx, iv, sig_len, flags, cacheExpirationInterval) ==
  [messageType |-> type, confirm_mac |-> <<>>, CFBIV |-> iv,
   H0 |-> ctx.selfH[0], sig_len |-> sig_len,
   E |-> flags[1], V |-> flags[2], A |-> flags[3], D |-> flags[4],
   cacheExpirationInterval |-> cacheExpirationInterval,
   signatureBlockType |-> IF sig_len > 0 THEN "PGP " ELSE "",
   signatureBlock |-> [i \in 1..(sig_len - 1) |-> 200 + i]]

\* the fields a host or the exchange sets: all but the MAC, which the
\* builder computes into the packet
setFields(m) ==
  IF "MAC" \in DOMAIN m THEN [m EXCEPT !.MAC = <<>>]
  ELSE IF "confirm_mac" \in DOMAIN m THEN [m EXCEPT !.confirm_mac = <<>>]
  ELSE m

\* the packet a channel stores when it has parsed the bytes w
storeParsed(w, ctx) == StoredPacket(codecParse(w, ctx).messageData, w)

\* The channel that receives message m of the channel snd, as the exchange
\* leaves it when m arrives: it holds its own Hello and the peer packets
\* that came before m.
receiverOf(m, snd) ==
  LET role == IF snd.role = INITIATOR THEN RESPONDER ELSE INITIATOR
      fresh == CodecContext(5, role, snd.keyAgreementAlgo)
      own == [fresh EXCEPT
                !.selfHello = StoredPacket(DefaultHello(fresh, 2),
                                           buildHello(DefaultHello(fresh, 2), fresh))]
      afterHello == [own EXCEPT
                       !.peerPackets.hello =
                         storeParsed(buildHello(DefaultHello(snd, 1), snd), own)]
      dh == snd.keyAgreementAlgo
              \notin {"ZRTP_KEYAGREEMENT_Prsh", "ZRTP_KEYAGREEMENT_Mult"}
      dhpart2 == IF m.messageType = "DHPart2" THEN m
                 ELSE DHPartMessage("DHPart2", snd, 0, 0, 0, 0, 40)
      commit == CommitMessage(snd, 1, "ZRTP_HASH_S256",
                  IF dh THEN 0 ELSE 7, 0,
                  IF dh THEN computedHvi(buildDHPart(dhpart2, snd),
                                         own.selfHello.packetString)
                  ELSE <<>>)
      afterCommit == [afterHello EXCEPT
                        !.peerPackets.commit =
                          storeParsed(buildCommit(commit, snd), afterHello)]
  IN CASE m.messageType \in {"Hello", "HelloACK"} -> own
       [] m.messageType \in {"Commit", "DHPart1"} -> afterHello
       [] m.messageType = "Confirm1" ->
            IF dh THEN [afterHello EXCEPT
                          !.peerPackets.dhpart =
                            storeParsed(buildDHPart(
                              DHPartMessage("DHPart1", snd, 0, 0, 0, 0, 40), snd),
                              afterHello)]
            ELSE afterHello
       [] m.messageType = "DHPart2" -> afterCommit
       [] m.messageType \in {"Confirm2", "Conf2ACK"} ->
            IF dh THEN [afterCommit EXCEPT
                          !.peerPackets.dhpart =
                            storeParsed(buildDHPart(dhpart2, snd), afterCommit)]
            ELSE afterCommit

\* ------------------------------------------------------------------------
\* The sequence number and CRC of a built packet, byte by byte
\* ------------------------------------------------------------------------
\* a stored packet is sent again at most this many times
MaxRetransmissions == 3

ZRTP_PACKET_CRC_LENGTH == 4
MSGTYPE_FRAGMENT == "Fragment"

\* the CRC of the first length bytes: a checksum of four bytes, each of
\* which depends on every byte and on its place
RECURSIVE crcByte(_, _, _)
crcByte(bytes, length, k) ==
  IF length = 0 THEN k
  ELSE (crcByte(bytes, length - 1, k) * 3 + (length + k) * bytes[length] + 1) % 256

bzrtp_CRC32(bytes, length) ==
  (crcByte(bytes, length, 3) % 128) * 16777216 + crcByte(bytes, length, 2) * 65536
    + crcByte(bytes, length, 1) * 256 + crcByte(bytes, length, 0)

packetHeaderLength(messageType) ==
  IF messageType = MSGTYPE_FRAGMENT
    THEN ZRTP_FRAGMENTEDPACKET_HEADER_LENGTH ELSE ZRTP_PACKET_HEADER_LENGTH

\* zrtpPacketSetHeader: preamble, two bytes for the sequence number, the
\* magic cookie "ZRTP" and the source identifier; a fragment carries 8 more
\* bytes: message id, total length, offset and fragment length
zrtpPacketSetHeader(messageType, sourceIdentifier, stale) ==
  <<IF messageType = MSGTYPE_FRAGMENT THEN 17 ELSE 16, 0, stale, stale,
    90, 82, 84, 80,
    (sourceIdentifier \div 16777216) % 256, (sourceIdentifier \div 65536) % 256,
    (sourceIdentifier \div 256) % 256, sourceIdentifier % 256>>
  \o (IF messageType = MSGTYPE_FRAGMENT THEN <<0, 1, 0, 6, 0, 0, 0, 3>> ELSE <<>>)

\* a packet as bzrtp_packetBuild leaves it: the header, the message and
\* four bytes for the CRC, which like the sequence number bytes hold what
\* the allocation left there
builtPacket(messageType, words, sourceIdentifier, stale) ==
  [messageType |-> messageType,
   messageLength |-> 4 * words,
   sequenceNumber |-> 0,
   packetString |-> zrtpPacketSetHeader(messageType, sourceIdentifier, stale)
                      \o zrtpMessageSetHeader(words)
                      \o <<stale, stale, stale, stale>>]

\* a packet that was never built, and no packet at all
NullString == <<>>
unbuiltPacket(messageType) ==
  [messageType |-> messageType, messageLength |-> 0, sequenceNumber |-> 0,
   packetString |-> NullString]
NullPacket == unbuiltPacket("NULL")

\* bzrtp_packetSetSequenceNumber on the bytes: the packet after the call
\* and the value returned; the CRC is computed over the bytes as they are
\* when it is called
setSequenceNumber_staleCRC(zrtpPacket, sequenceNumber) ==
  IF zrtpPacket = NullPacket \/ zrtpPacket.packetString = NullString
    THEN [packet |-> zrtpPacket, retval |-> "BZRTP_BUILDER_ERROR_INVALIDPACKET"]
  ELSE
    LET crcAt == zrtpPacket.messageLength + packetHeaderLength(zrtpPacket.messageType)
        CRC == bzrtp_CRC32(zrtpPacket.packetString, crcAt)
    IN [packet |->
          [zrtpPacket EXCEPT
             !.sequenceNumber = sequenceNumber,
             !.packetString =
               [[[zrtpPacket.packetString
                    EXCEPT ![3] = (sequenceNumber \div 256) % 256]
                    EXCEPT ![4] = sequenceNumber % 256]
                    EXCEPT ![crcAt + 1] = (CRC \div 16777216) % 256,
                           ![crcAt + 2] = (CRC \div 65536) % 256,
                           ![crcAt + 3] = (CRC \div 256) % 256,
                           ![crcAt + 4] = CRC % 256]],
        retval |-> OK]

\* bzrtp_packetSetSequenceNumber on the bytes: the packet after the call
\* and the value returned
setSequenceNumber(zrtpPacket, sequenceNumber) ==
  IF zrtpPacket = NullPacket \/ zrtpPacket.packetString = NullString
    THEN [packet |-> zrtpPacket, retval |-> "BZRTP_BUILDER_ERROR_INVALIDPACKET"]
  ELSE
    LET numbered == [[zrtpPacket.packetString
                        EXCEPT ![3] = (sequenceNumber \div 256) % 256]
                        EXCEPT ![4] = sequenceNumber % 256]
        crcAt == zrtpPacket.messageLength + packetHeaderLength(zrtpPacket.messageType)
        CRC == bzrtp_CRC32(numbered, crcAt)
    IN [packet |->
          [zrtpPacket EXCEPT
             !.sequenceNumber = sequenceNumber,
             !.packetString =
               [numbered EXCEPT ![crcAt + 1] = (CRC \div 16777216) % 256,
                                ![crcAt + 2] = (CRC \div 65536) % 256,
                                ![crcAt + 3] = (CRC \div 256) % 256,
                                ![crcAt + 4] = CRC % 256]],
        retval |-> OK]

VARIABLES ch, net, sent, wire, ret, fires, faults, gone, frag, codec

vars == <<ch, net, sent, wire, ret, fires, faults, gone, frag, codec>>

\* what the steps of the two channels and of the network leave alone: gone,
\* the endpoint whose host went away (0 while both hosts run), frag and
\* codec
aux == <<gone, frag, codec>>

\* what the freed packet's sequenceNumber may read as
GarbageSeq == {0, SeqModulus - 1}

\* the (state, message type) pairs handled by a repetition check
IsRepetitionCase(z, pkt) ==
  \/ z.state = "waitingForHelloAck" /\ pkt.type = "Hello"
  \/ z.state = "responderSendingDHPart1" /\ pkt.type = "Commit"
  \/ z.state = "responderSendingConfirm1" /\ pkt.type \in {"Commit", "DHPart2"}
  \/ z.state = "initiatorSendingDHPart2" /\ pkt.type = "DHPart1"
  \/ z.state = "initiatorSendingConfirm2" /\ pkt.type = "Confirm1"

\* the outcomes of the two unspecified reads of a MESSAGE event
MessageEvents(z, pkt) ==
  IF IsRepetitionCase(z, pkt) /\ bzrtp_packetCheck(pkt, z.peerSequenceNumber) = OK
  THEN {[eventType |-> "MESSAGE", pkt |-> pkt, cmp |-> FALSE, uaf |-> pkt.seq]}
       \cup {[eventType |-> "MESSAGE", pkt |-> pkt, cmp |-> TRUE, uaf |-> u] :
               u \in {pkt.seq} \cup GarbageSeq}
  ELSE {[eventType |-> "MESSAGE", pkt |-> pkt, cmp |-> TRUE, uaf |-> pkt.seq]}

RECURSIVE NewTypes(_, _)
NewTypes(seen, out) ==
  IF out = <<>> THEN seen
  ELSE NewTypes(IF \E i \in 1..Len(seen) : seen[i] = Head(out).type
                THEN seen ELSE Append(seen, Head(out).type),
                Tail(out))

\* the return of a call of e's state machine: the channel takes the new
\* context, the packets handed to the send callback join the peer's queue
Returned(e, ev, r) ==
  /\ ch' = [ch EXCEPT ![e] = r.z]
  /\ net' = [net EXCEPT ![Peer(e)] = @ \o r.out,
                        ![e] = IF ev.eventType = "MESSAGE" THEN Tail(@) ELSE @]
  /\ sent' = [sent EXCEPT ![e] = @ \o [i \in 1..Len(r.out) |->
                                         [type |-> r.out[i].type, seq |-> r.out[i].seq]]]
  /\ wire' = NewTypes(wire, r.out)
  /\ ret' = [ret EXCEPT ![e] = r.ret]

Call(e, z, ev) == \E r \in {stateMachine(z, ev)} : Returned(e, ev, r)

\* bzrtp_startChannelEngine: the INIT event of the first state
Start(e) ==
  /\ ch[e].state = "discovery_init"
  /\ ch[e].selfPackets.hello = NoPacket
  /\ Call(e, ch[e], InitEvent)
  /\ UNCHANGED <<fires, faults>>
  /\ UNCHANGED aux

\* e has not sent its Hello yet
HelloPending(e) == \A i \in 1..Len(sent[e]) : sent[e][i].type # "Hello"

\* bzrtp_iterate on a timer that is due: the firing is counted and the TIMER
\* event is given to the current state
Fire(e) ==
  /\ ch[e].timer.status = BZRTP_TIMER_ON
  /\ ch[e].state # "crashed"
  /\ Call(e, [ch[e] EXCEPT !.timer.firingCount = @ + 1],
          [eventType |-> "TIMER", pkt |-> NoPacket, cmp |-> TRUE, uaf |-> 0])

\* bzrtp_iterate: the clock tick of the host finds the timer due
Timer(e) ==
  /\ HelloPending(e) \/ fires + faults < MaxDisturbances
  /\ Fire(e)
  /\ fires' = IF HelloPending(e) THEN fires ELSE fires + 1
  /\ UNCHANGED faults
  /\ UNCHANGED aux

\* bzrtp_processMessage: the oldest packet on its way to e is given to the
\* current state as a MESSAGE event
Deliver(e) ==
  /\ net[e] # <<>>
  /\ ch[e].selfPackets.hello # NoPacket
  /\ ch[e].state # "crashed"
  /\ \E ev \in MessageEvents(ch[e], Head(net[e])) : Call(e, ch[e], ev)
  /\ UNCHANGED <<fires, faults>>
  /\ UNCHANGED aux

\* the network loses the oldest packet on its way to e
Lose(e) ==
  /\ net[e] # <<>>
  /\ fires + faults < MaxDisturbances
  /\ net' = [net EXCEPT ![e] = Tail(@)]
  /\ faults' = faults + 1
  /\ UNCHANGED <<ch, sent, wire, ret, fires>>
  /\ UNCHANGED aux

\* the network delivers the oldest packet on its way to e twice
Dup(e) ==
  /\ net[e] # <<>>
  /\ fires + faults < MaxDisturbances
  /\ net' = [net EXCEPT ![e] = <<Head(@)>> \o @]
  /\ faults' = faults + 1
  /\ UNCHANGED <<ch, sent, wire, ret, fires>>
  /\ UNCHANGED aux

\* what an altered packet may look like: its hash image replaced, its MAC
\* replaced, or another byte of its message changed
Altered(pkt, kind) ==
  CASE kind = "H" -> [pkt EXCEPT !.msg.H = 5]
    [] kind = "mac" -> [pkt EXCEPT !.msg.mac = <<0, EmptyMsg>>, !.msg.cmac = <<>>]
    [] kind = "body" -> [pkt EXCEPT !.msg.x = 1]

\* the network alters the oldest packet on its way to e
Tamper(e) ==
  /\ net[e] # <<>>
  /\ fires + faults < MaxDisturbances
  /\ Head(net[e]).type \notin {"HelloACK", "Conf2ACK"}
  /\ \E kind \in {"H", "mac", "body"} :
       net' = [net EXCEPT ![e] = <<Altered(Head(@), kind)>> \o Tail(@)]
  /\ faults' = faults + 1
  /\ UNCHANGED <<ch, sent, wire, ret, fires>>
  /\ UNCHANGED aux

\* the pairs of profiles the model starts from
Configs ==
  {<<ProfileMain(1), ProfileMain(2)>>,
   <<ProfileMain(2), ProfileMain(1)>>,
   <<ProfileMult(7, 1), ProfileMult(7, 2)>>,
   <<ProfileMult(7, 1), ProfileMult(8, 2)>>,
   <<ProfileMult(7, 1), ProfileMainM(2)>>,
   <<ProfileCache(1, 1), ProfileCache(1, 2)>>}

InitChannels(c) ==
  /\ ch = [e \in Endpoints |-> InitChannel(e, c[e])]
  /\ net = [e \in Endpoints |-> <<>>]
  /\ sent = [e \in Endpoints |-> <<>>]
  /\ wire = <<>>
  /\ ret = [e \in Endpoints |-> OK]
  /\ fires = 0
  /\ faults = 0
  /\ gone = 0

InitWith(c) ==
  /\ InitChannels(c)
  /\ frag = NoFragmentation
  /\ codec = NoCodec

Init == \E c \in Configs : InitWith(c)

Next ==
  \E e \in Endpoints :
    \/ Start(e)
    \/ Timer(e)
    \/ Deliver(e)
    \/ Lose(e)
    \/ Dup(e)
    \/ Tamper(e)

Spec == Init /\ [][Next]_vars

\* The clean exchange: two endpoints without cached secret or earlier session
\* on a network that delivers every packet once and in order.  The host
\* starts each channel and keeps calling the clock tick and the receive
\* function, so each of the three steps happens when it stays possible.
InitClean == \E r \in {1, 2} : InitWith(<<ProfileMain(r), ProfileMain(3 - r)>>)

NextClean ==
  \E e \in Endpoints :
    \/ Start(e)
    \/ Timer(e)
    \/ Deliver(e)

SpecClean ==
  /\ InitClean
  /\ [][NextClean]_vars
  /\ \A e \in Endpoints : WF_vars(Start(e)) /\ WF_vars(Timer(e)) /\ WF_vars(Deliver(e))

\* The exchange of two endpoints whose caches disagree: each holds a retained
\* secret for the other and the two differ, or one holds a secret and the
\* other none.  The network and the hosts are those of the clean exchange.
InitMismatch ==
  \E c \in {<<ProfileCache(1, 1), ProfileCache(2, 2)>>,
             <<ProfileCache(1, 2), ProfileCache(2, 1)>>,
             <<ProfileCache(1, 1), ProfileMain(2)>>,
             <<ProfileCache(1, 2), ProfileMain(1)>>} : InitWith(c)

SpecMismatch ==
  /\ InitMismatch
  /\ [][NextClean]_vars
  /\ \A e \in Endpoints : WF_vars(Start(e)) /\ WF_vars(Timer(e)) /\ WF_vars(Deliver(e))

\* The peer that goes silent: at any point of an undisturbed exchange the
\* host of one endpoint goes away; what is on its way to it is dropped and
\* the endpoint that remains is ticked by its host for as long as its timer
\* is on.  A tick comes after the packet of the tick before left the wire.
Vanish(e) ==
  /\ gone = 0
  /\ gone' = e
  /\ UNCHANGED <<ch, net, sent, wire, ret, fires, faults, frag, codec>>

\* a packet on its way to the endpoint that went away
Drain(e) ==
  /\ gone = e
  /\ net[e] # <<>>
  /\ net' = [net EXCEPT ![e] = Tail(@)]
  /\ UNCHANGED <<ch, sent, wire, ret, fires, faults, gone, frag, codec>>

\* bzrtp_iterate on the endpoint whose peer went away
Expire(e) ==
  /\ gone = Peer(e)
  /\ net[Peer(e)] = <<>>
  /\ Fire(e)
  /\ UNCHANGED <<fires, faults, gone, frag, codec>>

\* the tick that sends the first Hello, while both hosts run
FirstTick(e) == gone = 0 /\ HelloPending(e) /\ Timer(e)

\* bzrtp_processMessage on an endpoint whose host runs
Receive(e) == gone # e /\ Deliver(e)

NextSilent ==
  \E e \in Endpoints :
    \/ Start(e)
    \/ FirstTick(e)
    \/ Receive(e)
    \/ Vanish(e)
    \/ Drain(e)
    \/ Expire(e)

SpecSilent == Init /\ [][NextSilent]_vars

\* One fragmented message: a channel builds a message that does not fit its
\* MTU, and the fragments reach the packet check of the peer channel one by
\* one, in any order, each of them once.
InitFragment ==
  /\ InitChannels(<<ProfileMain(1), ProfileMain(2)>>)
  /\ \E words \in MinMessageWords..MaxMessageWords :
     \E mtu \in ZRTP_MIN_PACKET_LENGTH..(4 * words + ZRTP_PACKET_OVERHEAD - 1) :
     \E id \in MessageIds :
       frag = [NoFragmentation EXCEPT !.msg = zrtpMessageSetHeader(words),
                                      !.mtu = mtu,
                                      !.messageId = id]
  /\ codec = NoCodec

\* bzrtp_packetBuild of the message: the fragments, and the message id moves on
BuildFragments ==
  /\ frag.fragments = <<>>
  /\ needsFragmentation(frag.msg, frag.mtu)
  /\ frag' = [frag EXCEPT
                !.fragments = bzrtp_packetBuild_fragments(frag.msg, frag.mtu, frag.messageId),
                !.pending = 1..Len(bzrtp_packetBuild_fragments(frag.msg, frag.mtu, frag.messageId)),
                !.messageId = (@ + 1) % 65536]
  /\ UNCHANGED <<ch, net, sent, wire, ret, fires, faults, gone, codec>>

\* bzrtp_packetCheck of the peer channel on fragment i
DeliverFragment(i) ==
  /\ i \in frag.pending
  /\ \E r \in {bzrtp_packetCheck_fragment(frag.slot, frag.fragments[i])} :
       frag' = [frag EXCEPT !.pending = @ \ {i},
                            !.last = i,
                            !.slot = r.slot,
                            !.exitCode = r.exitCode,
                            !.message = r.message]
  /\ UNCHANGED <<ch, net, sent, wire, ret, fires, faults, gone, codec>>

NextFragment ==
  \/ BuildFragments
  \/ \E i \in 1..(4 * MaxMessageWords) : DeliverFragment(i)

SpecFragment == InitFragment /\ [][NextFragment]_vars

\* The exchange that loses one packet of the responder: first channels in
\* DH mode, or channels of an earlier session in Multistream mode, on a
\* network that loses at most one packet, a DHPart1, a Confirm1 or a
\* Conf2ACK, and delivers every other packet once and in order.  The timer
\* of a channel is slow against the network: it fires when nothing is on
\* its way, as often as the channel leaves it on.
InitLoss ==
  \E c \in {<<ProfileMain(1), ProfileMain(2)>>,
             <<ProfileMain(2), ProfileMain(1)>>,
             <<ProfileMult(7, 1), ProfileMult(7, 2)>>} : InitWith(c)

ResponderPackets == {"DHPart1", "Confirm1", "Conf2ACK"}

\* the network loses the packet of the responder on its way to e
LoseResponderPacket(e) ==
  /\ faults = 0
  /\ net[e] # <<>>
  /\ Head(net[e]).type \in ResponderPackets
  /\ net' = [net EXCEPT ![e] = Tail(@)]
  /\ faults' = 1
  /\ UNCHANGED <<ch, sent, wire, ret, fires>>
  /\ UNCHANGED aux

\* bzrtp_iterate when the timer of e is due and no packet is on its way
Retry(e) ==
  /\ ~HelloPending(e)
  /\ \A n \in Endpoints : net[n] = <<>>
  /\ Fire(e)
  /\ UNCHANGED <<fires, faults>>
  /\ UNCHANGED aux

NextLoss ==
  \E e \in Endpoints :
    \/ Start(e)
    \/ FirstTick(e)
    \/ Receive(e)
    \/ LoseResponderPacket(e)
    \/ Retry(e)

SpecLoss ==
  /\ InitLoss
  /\ [][NextLoss]_vars
  /\ \A e \in Endpoints :
       /\ WF_vars(Start(e))
       /\ WF_vars(FirstTick(e))
       /\ WF_vars(Receive(e))
       /\ WF_vars(Retry(e))

\* The Multistream exchange with a stray DHPart: two channels of an earlier
\* session, of the same session or not, on the network of Spec's timer and
\* delivery, where a DHPart1 or DHPart2 that carries the peer's hash image
\* and a fresh sequence number may reach a channel ahead of what is on its
\* way.
InitStray ==
  \E c \in {<<ProfileMult(7, 1), ProfileMult(7, 2)>>,
             <<ProfileMult(7, 2), ProfileMult(7, 1)>>,
             <<ProfileMult(7, 1), ProfileMult(8, 2)>>} : InitWith(c)

\* the DHPart the peer of e would build, numbered after the last packet e took
StrayPacket(e, t) ==
  [seq |-> Inc(ch[e].peerSequenceNumber),
   type |-> t,
   msg |-> [bzrtp_createZrtpPacket(ch[Peer(e)], t) EXCEPT
              !.mac = HMAC(selfH(ch[Peer(e)], 0),
                           MacInput(bzrtp_createZrtpPacket(ch[Peer(e)], t)))]]

Stray(e) ==
  /\ fires + faults < MaxDisturbances
  /\ ch[e].selfPackets.hello # NoPacket
  /\ \E t \in {"DHPart1", "DHPart2"} :
       net' = [net EXCEPT ![e] = <<StrayPacket(e, t)>> \o @]
  /\ faults' = faults + 1
  /\ UNCHANGED <<ch, sent, wire, ret, fires>>
  /\ UNCHANGED aux

NextStray ==
  \E e \in Endpoints :
    \/ Start(e)
    \/ Timer(e)
    \/ Deliver(e)
    \/ Stray(e)

SpecStray == InitStray /\ [][NextStray]_vars

\* ------------------------------------------------------------------------
\* The codec on its own: one message structure is built into a packet by
\* the channel that sends it and the packet is parsed by the channel that
\* receives it.
\* ------------------------------------------------------------------------
\* the menus of one category a host may configure: the mandatory algorithm
\* alone, another algorithm alone, both, and for the key agreement none
HashMenus == {<<"ZRTP_HASH_S256">>, <<"ZRTP_HASH_S384">>,
              <<"ZRTP_HASH_S384", "ZRTP_HASH_S256">>}
CipherMenus == {<<"ZRTP_CIPHER_AES1">>, <<"ZRTP_CIPHER_AES3">>}
AuthTagMenus == {<<"ZRTP_AUTHTAG_HS32">>, <<"ZRTP_AUTHTAG_SK32">>}
KeyAgreementMenus == {<<"ZRTP_KEYAGREEMENT_DH3k">>, <<"ZRTP_KEYAGREEMENT_DH2k">>,
                      <<"ZRTP_KEYAGREEMENT_DH3k", "ZRTP_KEYAGREEMENT_Mult">>, <<>>}
SasMenus == {<<"ZRTP_SAS_B32">>, <<"ZRTP_SAS_B256">>}
CacheExpirations == {0, 66051, 2147483647}

\* the messages of the experiment, each with the channel that sends it
CodecInputs ==
  LET ctx(role, ka) == CodecContext(1, role, ka)
  IN {<<HelloMessage(ctx(role, "ZRTP_KEYAGREEMENT_DH3k").selfH[3], 1, M, P,
                     h, c, a, k, s),
        ctx(role, "ZRTP_KEYAGREEMENT_DH3k")>> :
        role \in {INITIATOR}, M \in {0, 1}, P \in {0, 1}, h \in HashMenus,
        c \in CipherMenus, a \in AuthTagMenus, k \in KeyAgreementMenus,
        s \in SasMenus}
     \cup {<<[messageType |-> t], ctx(role, "ZRTP_KEYAGREEMENT_DH3k")>> :
            t \in {"HelloACK", "Conf2ACK"}, role \in {INITIATOR, RESPONDER}}
     \cup {<<CommitMessage(ctx(INITIATOR, ka), 1, h,
                           IF ka = "ZRTP_KEYAGREEMENT_DH3k" THEN 0 ELSE n,
                           IF ka = "ZRTP_KEYAGREEMENT_Prsh" THEN 9 ELSE 0,
                           IF ka = "ZRTP_KEYAGREEMENT_DH3k"
                             THEN computedHvi(n, n) ELSE <<>>),
             ctx(INITIATOR, ka)>> :
            ka \in {"ZRTP_KEYAGREEMENT_DH3k", "ZRTP_KEYAGREEMENT_Mult",
                    "ZRTP_KEYAGREEMENT_Prsh"},
            h \in {"ZRTP_HASH_S256", "ZRTP_HASH_S384"}, n \in {7, 8}}
     \cup {<<DHPartMessage(t, ctx(IF t = "DHPart1" THEN RESPONDER ELSE INITIATOR, ka),
                           rs1, rs2, 0, pbx, pv),
             ctx(IF t = "DHPart1" THEN RESPONDER ELSE INITIATOR, ka)>> :
            t \in {"DHPart1", "DHPart2"},
            ka \in {"ZRTP_KEYAGREEMENT_DH3k", "ZRTP_KEYAGREEMENT_DH2k"},
            rs1 \in {0, 3}, rs2 \in {0, 4}, pbx \in {0, 6}, pv \in {40, 41}}
     \cup {<<ConfirmMessage(t, ctx(IF t = "Confirm1" THEN RESPONDER ELSE INITIATOR, ka),
                            77, sig, f, ce),
             ctx(IF t = "Confirm1" THEN RESPONDER ELSE INITIATOR, ka)>> :
            t \in {"Confirm1", "Confirm2"},
            ka \in {"ZRTP_KEYAGREEMENT_DH3k", "ZRTP_KEYAGREEMENT_Mult"},
            sig \in 0..MaxSigLen,
            f \in {<<0, 0, 0, 0>>, <<1, 0, 0, 0>>, <<0, 1, 0, 1>>, <<1, 1, 1, 1>>},
            ce \in CacheExpirations}

InitCodec ==
  /\ InitChannels(<<ProfileMain(1), ProfileMain(2)>>)
  /\ frag = NoFragmentation
  /\ \E in \in CodecInputs :
       codec = [NoCodec EXCEPT !.step = "created", !.m = in[1], !.snd = in[2],
                               !.rcv = receiverOf(in[1], in[2])]

\* bzrtp_packetBuild of the message in the sending channel
CodecBuild ==
  /\ codec.step = "created"
  /\ codec' = [codec EXCEPT !.step = "built",
                            !.wire = codecBuild(codec.m, codec.snd)]
  /\ UNCHANGED <<ch, net, sent, wire, ret, fires, faults, gone, frag>>

\* bzrtp_packetParser of the packet in the receiving channel
CodecParse ==
  /\ codec.step = "built"
  /\ codec' = [codec EXCEPT !.step = "parsed",
                            !.parsed = codecParse(codec.wire, codec.rcv)]
  /\ UNCHANGED <<ch, net, sent, wire, ret, fires, faults, gone, frag>>

NextCodec == CodecBuild \/ CodecParse

SpecCodec == InitCodec /\ [][NextCodec]_vars

\* ------------------------------------------------------------------------
\* Retransmission of one stored packet: the timer branch of a sending state
\* gives the stored packet the next sequence number of the channel and
\* sends its packet string.
\* ------------------------------------------------------------------------
StoredTypes == {"Hello", "Commit", "DHPart2", "Confirm2", MSGTYPE_FRAGMENT}

InitSequence ==
  /\ InitChannels(<<ProfileMain(1), ProfileMain(2)>>)
  /\ frag = NoFragmentation
  /\ \E packet \in {builtPacket(t, words, ssrc, stale) :
                      t \in StoredTypes, words \in {3, 4},
                      ssrc \in {1, 305419896}, stale \in {0, 255}}
                   \cup {unbuiltPacket(t) : t \in StoredTypes} \cup {NullPacket} :
     \E n \in {0, 255, SeqModulus - 2} :
       codec = [step |-> "stored", packet |-> packet, selfSequenceNumber |-> n,
                sent |-> <<>>, retval |-> OK]

\* the timer branch: bzrtp_packetSetSequenceNumber with selfSequenceNumber,
\* then when it returned 0 the send callback and selfSequenceNumber++
SendAgain ==
  /\ codec.step = "stored"
  /\ Len(codec.sent) < MaxRetransmissions
  /\ codec.retval = OK
  /\ \E r \in {setSequenceNumber(codec.packet, codec.selfSequenceNumber)} :
       codec' = [codec EXCEPT
                   !.packet = r.packet,
                   !.retval = r.retval,
                   !.sent = IF r.retval = OK
                              THEN Append(@, r.packet.packetString) ELSE @,
                   !.selfSequenceNumber = IF r.retval = OK THEN Inc(@) ELSE @]
  /\ UNCHANGED <<ch, net, sent, wire, ret, fires, faults, gone, frag>>

NextSequence == SendAgain

SpecSequence == InitSequence /\ [][NextSequence]_vars

\* ------------------------------------------------------------------------
\* Commit contention on its own: both channels are in sendingCommit, each
\* with its Commit on the way to the other, over the key agreement modes of
\* the two Commits, the M flags of the two Hellos and the order of the two
\* nonces or hvi.
\* ------------------------------------------------------------------------
CommitModes == {"DH3k", "Mult", "Prsh"}

\* the Hello of channel e, with its M flag
ContentionHello(e, M, rnd) ==
  bzrtp_packetBuild(
    InitChannel(e, ProfileMult(7, rnd)),
    [bzrtp_createZrtpPacket(InitChannel(e, ProfileMult(7, rnd)), "Hello") EXCEPT !.M = M],
    1).pkt

\* channel e after the Hello exchange, when its mode is keyAgreementAlgo
AfterHello(e, keyAgreementAlgo, M, rnd, peerHello) ==
  The({(
    responseToHello_DHPart(z, bzrtp_packetBuild(z, bzrtp_createZrtpPacket(z, "DHPart2"), 0))
  ) : z \in {[responseToHello_secrets(
                 [InitChannel(e, ProfileMult(7, rnd)) EXCEPT
                    !.selfPackets.hello = ContentionHello(e, M, rnd),
                    !.selfSequenceNumber = 3,
                    !.peerSequenceNumber = 2],
                 peerHello, 0, 1)
              EXCEPT !.keyAgreementAlgo = keyAgreementAlgo]}})

\* channel e in sendingCommit: its Commit is stored and sent
CommitSent(z_) ==
  The({(
    [z EXCEPT !.state = "sendingCommit",
              !.timer = TimerOn(NON_HELLO_BASE_RETRANSMISSION_STEP),
              !.selfPackets.commit =
                  bzrtp_packetBuild(z, bzrtp_createZrtpPacket(z, "Commit"), 3).pkt,
              !.selfSequenceNumber = 4]
  ) : z \in {z_}})

InitContention ==
  /\ \E ka \in [Endpoints -> CommitModes] :
     \E M \in [Endpoints -> {0, 1}] :
     \E rnd \in {<<1, 2>>, <<2, 1>>} :
       /\ ch = [e \in Endpoints |->
                  CommitSent(AfterHello(e, ka[e], M[e], rnd[e],
                                        ContentionHello(Peer(e), M[Peer(e)], rnd[Peer(e)])))]
       /\ net = [e \in Endpoints |->
                   <<CommitSent(AfterHello(Peer(e), ka[Peer(e)], M[Peer(e)], rnd[Peer(e)],
                                           ContentionHello(e, M[e], rnd[e]))).selfPackets.commit>>]
  /\ sent = [e \in Endpoints |-> <<[type |-> "Commit", seq |-> 3]>>]
  /\ wire = <<"Hello", "HelloACK", "Commit">>
  /\ ret = [e \in Endpoints |-> OK]
  /\ fires = 0
  /\ faults = 0
  /\ gone = 0
  /\ frag = NoFragmentation
  /\ codec = NoCodec

NextContention == \E e \in Endpoints : Deliver(e)

SpecContention == InitContention /\ [][NextContention]_vars

\* ------------------------------------------------------------------------
\* Reassembly on its own: the reassembly slot of a channel receives, in any
\* order and any number of times, fragments whose header and CRC are right.
\* Each carries the words of the message of its declared total length that
\* its offset and length name; nothing makes the fragments of one message
\* id disjoint or agree on the total length.
\* ------------------------------------------------------------------------
MaxTotalWords == 3

\* the fragment of the message of the given total length that carries the
\* words from offset on
receivedFragment(id, total, offset, length) ==
  [messageId |-> id,
   messageTotalLength |-> total,
   offset |-> offset,
   fragmentLength |-> length,
   data |-> SubSeq(zrtpMessageSetHeader(total), 4 * offset + 1, 4 * (offset + length)),
   inputLength |-> ZRTP_FRAGMENTEDPACKET_OVERHEAD + 4 * length]

\* the fragments that lie within the message of their declared total length
FragmentsWithin ==
  {receivedFragment(t[1], t[2], t[3], t[4]) :
     t \in {u \in MessageIds \X (2..MaxTotalWords) \X (0..(MaxTotalWords - 1))
                    \X (1..MaxTotalWords) : u[3] + u[4] <= u[2]}}

InitReassembly ==
  /\ InitChannels(<<ProfileMain(1), ProfileMain(2)>>)
  /\ frag = NoFragmentation
  /\ codec = NoCodec

\* the exit codes of a fragment that was not taken into the slot
FragmentRefused ==
  {"BZRTP_PARSER_ERROR_INVALIDPACKET", "BZRTP_PARSER_ERROR_OUTOFORDER", "SIGSEGV"}

\* bzrtp_packetCheck of the channel on the fragment f; frag.seen keeps the
\* highest message id of the fragments taken so far
ReceiveFragment(f) ==
  /\ frag.exitCode # "SIGSEGV"
  /\ \E r \in {bzrtp_packetCheck_fragment(frag.slot, f)} :
       frag' = [frag EXCEPT !.slot = r.slot,
                            !.exitCode = r.exitCode,
                            !.message = r.message,
                            !.seen = IF r.exitCode \in FragmentRefused \/ f.messageId < @
                                       THEN @ ELSE f.messageId]
  /\ UNCHANGED <<ch, net, sent, wire, ret, fires, faults, gone, codec>>

NextReassembly == \E f \in FragmentsWithin : ReceiveFragment(f)

SpecReassembly == InitReassembly /\ [][NextReassembly]_vars

\* ------------------------------------------------------------------------
\* Reassembly of fragments as a peer may write them: the message id may be
\* 0, the offset and the declared fragment length need not lie within the
\* declared total length, and the payload the packet carries need not have
\* the declared fragment length.  Header and CRC are right.
\* ------------------------------------------------------------------------
MaxCraftedWords == 2

\* the fragment packet with the four header fields as given and a payload
\* of the given number of words
craftedFragment(id, total, offset, length, words) ==
  [messageId |-> id,
   messageTotalLength |-> total,
   offset |-> offset,
   fragmentLength |-> length,
   data |-> [i \in 1..(4 * words) |-> offset + 1],
   inputLength |-> ZRTP_FRAGMENTEDPACKET_OVERHEAD + 4 * words]

CraftedFragments ==
  {craftedFragment(t[1], t[2], t[3], t[4], t[5]) :
     t \in (0..2) \X (1..MaxCraftedWords) \X (0..MaxCraftedWords)
             \X (1..MaxCraftedWords) \X (1..MaxCraftedWords)}

NextCrafted == \E f \in CraftedFragments : ReceiveFragment(f)

SpecCrafted == InitReassembly /\ [][NextCrafted]_vars

\* ------------------------------------------------------------------------
\* A Commit that names another key agreement: first channels that support
\* DH3k only, on a network that loses packets, and a peer (or the network)
\* that puts the name of a key agreement the receiver neither supports nor
\* advertised in a Commit on its way.  The parser knows the name and checks
\* the MAC of the Commit only when the DHPart2 arrives.
\* ------------------------------------------------------------------------
ForeignKeyAgreements == {"DH2k", "Mult", "Prsh"}

InitForeign == InitClean

\* the Commit at the head of the queue of e names a key agreement e does
\* not support
Foreign(e) ==
  /\ net[e] # <<>>
  /\ Head(net[e]).type = "Commit"
  /\ fires + faults < MaxDisturbances
  /\ Head(net[e]).msg.ka \notin ForeignKeyAgreements
  /\ \E ka \in ForeignKeyAgreements :
       /\ \A i \in 1..Len(WithMandatory(ch[e].supportedKeyAgreement)) :
            WithMandatory(ch[e].supportedKeyAgreement)[i] # ka
       /\ net' = [net EXCEPT ![e] = <<[Head(@) EXCEPT !.msg.ka = ka]>> \o Tail(@)]
  /\ faults' = faults + 1
  /\ UNCHANGED <<ch, sent, wire, ret, fires>>
  /\ UNCHANGED aux

NextForeign ==
  \E e \in Endpoints :
    \/ Start(e)
    \/ Timer(e)
    \/ Deliver(e)
    \/ Lose(e)
    \/ Foreign(e)

SpecForeign == InitForeign /\ [][NextForeign]_vars

\* ------------------------------------------------------------------------
\* The sequence number filter in the exchange: first channels in DH mode
\* with a peer whose MTU may make a packet travel in fragments, on a network
\* that may swap two packets.
\* ------------------------------------------------------------------------
InitFilter == InitClean

\* the messages that travel or travelled in fragments
MaxFragmented == 1

FragmentedSoFar ==
  Cardinality({<<e, i>> \in Endpoints \X (1..8) :
                 i <= Len(net[e]) /\ isFragmented(net[e][i])})
  + Cardinality({<<e, id>> \in Endpoints \X DOMAIN NoStore :
                   ch[e].peerPackets[id] # NoPacket /\ isFragmented(ch[e].peerPackets[id])})

\* the oldest packet on its way to e is longer than the MTU of its sender:
\* it travels in fragments and e's bzrtp_packetCheck reassembles it
Fragmented(e) ==
  /\ net[e] # <<>>
  /\ ~isFragmented(Head(net[e]))
  /\ FragmentedSoFar < MaxFragmented
  /\ Head(net[e]).type \notin {"HelloACK", "Conf2ACK"}
  /\ net' = [net EXCEPT ![e] = <<[seq |-> Head(@).seq, type |-> Head(@).type,
                                   msg |-> Head(@).msg, fragmented |-> TRUE]>> \o Tail(@)]
  /\ UNCHANGED <<ch, sent, wire, ret, fires, faults>>
  /\ UNCHANGED aux

\* the network swaps the two oldest packets on their way to e
Reorder(e) ==
  /\ Len(net[e]) >= 2
  /\ fires + faults < MaxDisturbances
  /\ net' = [net EXCEPT ![e] = <<@[2], @[1]>> \o Tail(Tail(@))]
  /\ faults' = faults + 1
  /\ UNCHANGED <<ch, sent, wire, ret, fires>>
  /\ UNCHANGED aux

NextFilter ==
  \E e \in Endpoints :
    \/ Start(e)
    \/ Timer(e)
    \/ Deliver(e)
    \/ Fragmented(e)
    \/ Reorder(e)

SpecFilter == InitFilter /\ [][NextFilter]_vars

\* ------------------------------------------------------------------------
\* The exchange of two first channels in DH mode whose sequence numbers
\* start low or just below the top of the 16 bits, on a network that
\* delivers every packet once and in order.
\* ------------------------------------------------------------------------
SequenceStarts == {1, SeqModulus - 2}

InitWrap ==
  /\ \E first \in [Endpoints -> SequenceStarts] :
       ch = [e \in Endpoints |->
               [InitChannel(e, ProfileMain(e)) EXCEPT !.selfSequenceNumber = first[e]]]
  /\ net = [e \in Endpoints |-> <<>>]
  /\ sent = [e \in Endpoints |-> <<>>]
  /\ wire = <<>>
  /\ ret = [e \in Endpoints |-> OK]
  /\ fires = 0
  /\ faults = 0
  /\ gone = 0
  /\ frag = NoFragmentation
  /\ codec = NoCodec

SpecWrap == InitWrap /\ [][NextClean]_vars

\* ------------------------------------------------------------------------
\* The exchange of a host that starts a channel again: the INIT event is
\* given once more to a channel in discovery_init that has its Hello, or in
\* sendingCommit that has its Commit.  The network delivers every packet
\* once and in order.
\* ------------------------------------------------------------------------
InitRestart == InitClean

\* the INIT event for a state that has already built its packet
Restart(e) ==
  /\ \/ ch[e].state = "discovery_init" /\ ch[e].selfPackets.hello # NoPacket
     \/ ch[e].state = "sendingCommit" /\ ch[e].selfPackets.commit # NoPacket
  /\ fires + faults < MaxDisturbances
  /\ Call(e, ch[e], InitEvent)
  /\ faults' = faults + 1
  /\ UNCHANGED fires
  /\ UNCHANGED aux

NextRestart ==
  \E e \in Endpoints :
    \/ Start(e)
    \/ Timer(e)
    \/ Deliver(e)
    \/ Restart(e)

SpecRestart == InitRestart /\ [][NextRestart]_vars

\* ------------------------------------------------------------------------
\* Properties
\* ------------------------------------------------------------------------
BothSecure == \A e \in Endpoints : ch[e].state = "secure"

\* e handed a packet of the given type to its send callback
HasSent(e, type) == \E i \in 1..Len(sent[e]) : sent[e][i].type = type

\* a packet of the given type is on its way to e
InTransit(e, type) == \E i \in 1..Len(net[e]) : net[e][i].type = type

\* the step gives the oldest packet on its way to e to e's state machine
Handles(e) ==
  /\ net[e] # <<>>
  /\ Len(net'[e]) = Len(net[e]) - 1
  /\ faults' = faults

MessageOrder ==
  <<"Hello", "HelloACK", "Commit", "DHPart1", "DHPart2", "Confirm1", "Confirm2", "Conf2ACK">>

\* the message types appear on the wire in the order of the exchange
WireInOrder == \E n \in 0..Len(MessageOrder) : wire = SubSeq(MessageOrder, 1, n)

\* C1: in the clean exchange both endpoints eventually are secure, and the
\* message types first appear on the wire in the order Hello, HelloACK,
\* Commit, DHPart1, DHPart2, Confirm1, Confirm2, Conf2ACK.
C1_CleanExchange == (<>BothSecure) /\ []WireInOrder

\* a channel whose peerSequenceNumber is the highest 16 bit number accepts no
\* packet any more: it stays in its state whatever arrives, so the exchange
\* that reached this value before the secure state never completes
StuckAtLastNumber ==
  [][\A e \in Endpoints :
       ch[e].peerSequenceNumber = SeqModulus - 1 =>
         /\ ch'[e].peerSequenceNumber = SeqModulus - 1
         /\ ch'[e].state = ch[e].state
         /\ Handles(e) /\ ch[e].state # "secure" => ret'[e] = "PARSER_ERROR_OUTOFORDER"]_vars

\* C2: when both endpoints are secure they hold the same s0, KDF context,
\* mackeyi, mackeyr, zrtpkeyi and zrtpkeyr.
C2_KeyScheduleMirror ==
  BothSecure =>
    /\ ch[1].s0 = ch[2].s0
    /\ ch[1].KDFContext = ch[2].KDFContext
    /\ ch[1].mackeyi = ch[2].mackeyi
    /\ ch[1].mackeyr = ch[2].mackeyr
    /\ ch[1].zrtpkeyi = ch[2].zrtpkeyi
    /\ ch[1].zrtpkeyr = ch[2].zrtpkeyr

\* both are secure with keys derived, one as initiator and one as responder
C2_Witness ==
  /\ BothSecure
  /\ ch[1].s0 # <<>>
  /\ ch[1].mackeyi # <<>>
  /\ ch[1].role # ch[2].role

\* both endpoints sent a Commit and each Commit reached the other endpoint's
\* state machine: nothing was lost, duplicated or altered, and no Commit is
\* on its way any more
ContentionOver ==
  /\ faults = 0
  /\ \A e \in Endpoints : HasSent(e, "Commit") /\ ~InTransit(e, "Commit")

\* C3: after a commit contention exactly one endpoint is the responder.
C3_ExactlyOneResponder ==
  ContentionOver => Cardinality({e \in Endpoints : ch[e].role = RESPONDER}) = 1

\* the Commit handled by the step takes part in a contention by value: e is
\* sending its own Commit, the packet passes the checks, both Commits are
\* for the same key agreement and neither Hello has the M flag
ContentionByValue(e) ==
  /\ Handles(e)
  /\ ch[e].state = "sendingCommit"
  /\ ch[e].role = INITIATOR
  /\ Head(net[e]).type = "Commit"
  /\ bzrtp_packetCheck(Head(net[e]), ch[e].peerSequenceNumber) = OK
  /\ bzrtp_packetParser(ch[e], Head(net[e])).ret = OK
  /\ Head(net[e]).msg.ka = ch[e].selfPackets.commit.msg.ka
  /\ ch[e].selfPackets.hello.msg.M = 0
  /\ ch[e].peerPackets.hello.msg.M = 0

\* C4: in a contention by value the endpoint with the lower hvi or nonce
\* becomes responder, discards its Commit and stops its timer; the endpoint
\* with the higher one stays initiator in sendingCommit with its Commit
\* stored and its timer running.
C4_ContentionByValue ==
  [][\A e \in Endpoints :
       ContentionByValue(e) =>
         /\ ch[e].selfPackets.commit.msg.val < Head(net[e]).msg.val =>
              /\ ch'[e].role = RESPONDER
              /\ ch'[e].selfPackets.commit = NoPacket
              /\ ch'[e].timer.status = BZRTP_TIMER_OFF
              /\ ch'[e].state # "sendingCommit"
         /\ ch[e].selfPackets.commit.msg.val > Head(net[e]).msg.val =>
              /\ ch'[e].role = INITIATOR
              /\ ch'[e].state = "sendingCommit"
              /\ ch'[e].selfPackets.commit = ch[e].selfPackets.commit
              /\ ch'[e].timer.status = BZRTP_TIMER_ON]_vars

\* both endpoints handled the other's Commit in sendingCommit: one gave its
\* Commit up, the other still holds its own
C4_Witness ==
  /\ ContentionOver
  /\ \E e \in Endpoints :
       /\ ch[e].role = RESPONDER /\ ch[e].selfPackets.commit = NoPacket
       /\ ch[e].peerPackets.commit # NoPacket
       /\ ch[e].selfPackets.hello.msg.kas = ch[Peer(e)].selfPackets.hello.msg.kas
       /\ ch[Peer(e)].role = INITIATOR /\ ch[Peer(e)].selfPackets.commit # NoPacket

\* the Confirm2 carries the confirm_mac of the initiator's key over its
\* cipher text, and the H0 it encrypts hashes to the image the initiator's
\* earlier message revealed
Confirm2Valid(z, pkt) ==
  /\ z.mackeyi # <<>>
  /\ pkt.msg.cmac = HMAC(z.mackeyi, pkt.msg.enc)
  /\ IF IsDHMode(z.keyAgreementAlgo)
     THEN SHA256(cipherDecrypt(z.zrtpkeyi, pkt.msg.enc)) = z.peerPackets.dhpart.msg.H
     ELSE SHA256(SHA256(cipherDecrypt(z.zrtpkeyi, pkt.msg.enc))) = z.peerPackets.commit.msg.H

\* the step hands a packet of the given type to e's send callback last
SendsLast(e, type) ==
  /\ Len(sent'[e]) > Len(sent[e])
  /\ sent'[e][Len(sent'[e])].type = type

\* C5: a channel enters the secure state only on a message that was not
\* rejected: from responderSendingConfirm1 on a Confirm2 that passes the
\* confirm_mac and hash chain checks, with the Conf2ACK sent, or from
\* initiatorSendingConfirm2 on a Conf2ACK.
C5_SecureOnlyByConfirmation ==
  [][\A e \in Endpoints :
       ch[e].state # "secure" /\ ch'[e].state = "secure" =>
         /\ Handles(e)
         /\ ret'[e] = OK
         /\ Head(net[e]).seq > ch[e].peerSequenceNumber
         /\ \/ /\ ch[e].state = "responderSendingConfirm1"
               /\ Head(net[e]).type = "Confirm2"
               /\ Confirm2Valid(ch[e], Head(net[e]))
               /\ SendsLast(e, "Conf2ACK")
            \/ /\ ch[e].state = "initiatorSendingConfirm2"
               /\ Head(net[e]).type = "Conf2ACK"]_vars

\* the responder is secure with its Conf2ACK sent and the initiator is
\* secure after that Conf2ACK
C5_Witness ==
  \E e \in Endpoints :
    /\ ch[e].state = "secure" /\ ch[e].role = RESPONDER /\ HasSent(e, "Conf2ACK")
    /\ ch[Peer(e)].state = "secure" /\ ch[Peer(e)].role = INITIATOR
    /\ ch[e].isSecure = 1 /\ ch[Peer(e)].isSecure = 1

\* the hash image a Commit or DHPart reveals does not hash to the image
\* stored from the peer's earlier message
ChainMismatch(z, pkt) ==
  \/ /\ pkt.type = "Commit"
     /\ z.peerPackets.hello # NoPacket
     /\ SHA256(pkt.msg.H) # z.peerPackets.hello.msg.H
  \/ /\ pkt.type = "DHPart2"
     /\ z.peerPackets.commit # NoPacket
     /\ SHA256(pkt.msg.H) # z.peerPackets.commit.msg.H
  \/ /\ pkt.type = "DHPart1"
     /\ z.peerPackets.hello # NoPacket
     /\ SHA256(SHA256(pkt.msg.H)) # z.peerPackets.hello.msg.H

\* the channel of e is where it was: same state and role, nothing stored,
\* no image taken
NoAdvance(e) ==
  /\ ch'[e].state = ch[e].state
  /\ ch'[e].role = ch[e].role
  /\ ch'[e].peerPackets = ch[e].peerPackets
  /\ ch'[e].peerH = ch[e].peerH

\* C6: in every secure state the peer H0, hashed three times, is the H3 of
\* the stored peer Hello; a Commit or DHPart whose image does not hash to the
\* stored one does not advance the channel.
C6_HashChain ==
  /\ [](\A e \in Endpoints :
          ch[e].state = "secure" =>
            SHA256(SHA256(SHA256(ch[e].peerH.h0))) = ch[e].peerPackets.hello.msg.H)
  /\ [][\A e \in Endpoints :
          Handles(e) /\ ChainMismatch(ch[e], Head(net[e])) => NoAdvance(e)]_vars

\* a message was refused for its hash image
C6_Witness == \E e \in Endpoints : ret[e] = "PARSER_ERROR_UNMATCHINGHASHCHAIN"

\* the MAC of a stored message under the key
MacVerifies(key, stored) == stored.msg.mac = HMAC(key, [stored.msg EXCEPT !.mac = <<>>])

\* the message reveals the key of a stored peer message whose MAC does not
\* verify under it, in a state that parses the message
RevealsBadMAC(z, pkt) ==
  \/ /\ pkt.type = "Commit"
     /\ z.state \in {"waitingForHelloAck", "sendingCommit"}
     /\ z.peerPackets.hello # NoPacket
     /\ SHA256(pkt.msg.H) = z.peerPackets.hello.msg.H
     /\ ~MacVerifies(pkt.msg.H, z.peerPackets.hello)
  \/ /\ pkt.type = "DHPart2"
     /\ z.state = "responderSendingDHPart1"
     /\ SHA256(pkt.msg.H) = z.peerPackets.commit.msg.H
     /\ ~MacVerifies(pkt.msg.H, z.peerPackets.commit)
  \/ /\ pkt.type = "DHPart1"
     /\ z.state = "sendingCommit"
     /\ IsDHMode(z.keyAgreementAlgo)
     /\ SHA256(SHA256(pkt.msg.H)) = z.peerPackets.hello.msg.H
     /\ ~MacVerifies(SHA256(pkt.msg.H), z.peerPackets.hello)

RepeatedMessage(z, pkt) ==
  \/ z.state = "waitingForHelloAck" /\ pkt.type = "Hello"
  \/ z.state \in {"responderSendingDHPart1", "responderSendingConfirm1"} /\ pkt.type = "Commit"
  \/ z.state = "initiatorSendingDHPart2" /\ pkt.type = "DHPart1"
  \/ z.state = "responderSendingConfirm1" /\ pkt.type = "DHPart2"
  \/ z.state = "initiatorSendingConfirm2" /\ pkt.type = "Confirm1"

\* the stored peer message of the type of the packet
StoredLike(z, pkt) ==
  CASE pkt.type = "Hello" -> z.peerPackets.hello
    [] pkt.type = "Commit" -> z.peerPackets.commit
    [] pkt.type \in {"DHPart1", "DHPart2"} -> z.peerPackets.dhpart
    [] OTHER -> z.peerPackets.confirm

\* C8: a repeated message is accepted only when its message equals the
\* stored one; one that differs is answered with UNMATCHINGPACKETREPETITION
\* and the stored message stays.
C8_RepetitionRule ==
  [][\A e \in Endpoints :
       /\ Handles(e)
       /\ Head(net[e]).seq > ch[e].peerSequenceNumber
       /\ RepeatedMessage(ch[e], Head(net[e]))
       => /\ ret'[e] = OK => Head(net[e]).msg = StoredLike(ch[e], Head(net[e])).msg
          /\ Head(net[e]).msg # StoredLike(ch[e], Head(net[e])).msg =>
               /\ ret'[e] = "ERROR_UNMATCHINGPACKETREPETITION"
               /\ ch'[e].peerPackets = ch[e].peerPackets]_vars

\* C9: a packet whose sequence number is not above the last valid one is
\* rejected as out of order, and peerSequenceNumber only ever takes the
\* sequence number of a packet that was accepted.
C9_SequenceFilter ==
  [][\A e \in Endpoints :
       /\ Handles(e) /\ Head(net[e]).seq <= ch[e].peerSequenceNumber =>
            ret'[e] = "PARSER_ERROR_OUTOFORDER" /\ ch'[e] = ch[e]
       /\ ch'[e].peerSequenceNumber # ch[e].peerSequenceNumber =>
            /\ Handles(e)
            /\ ret'[e] = OK
            /\ ch'[e].peerSequenceNumber = Head(net[e]).seq]_vars

TimerTick(e) == ch'[e].timer.firingCount = ch[e].timer.firingCount + 1

\* the states that send a Hello again
HelloStates == {"discovery_init", "waitingForHelloAck"}

\* the cap of the firing count and of the step in state st
MaxFirings(st) ==
  IF st \in HelloStates THEN HELLO_MAX_RETRANSMISSION_NUMBER
  ELSE NON_HELLO_MAX_RETRANSMISSION_NUMBER
StepCap(st) ==
  IF st \in HelloStates THEN HELLO_CAP_RETRANSMISSION_STEP
  ELSE NON_HELLO_CAP_RETRANSMISSION_STEP
StepBase(st) ==
  IF st \in HelloStates THEN HELLO_BASE_RETRANSMISSION_STEP
  ELSE NON_HELLO_BASE_RETRANSMISSION_STEP

\* C11: retransmission cap.  On the TIMER event that brings the firing count
\* of a retransmitting state to its cap, 20 in both Hello states and 10 in
\* the others, the timer is stopped and no packet is sent.
C11_RetransmissionCap ==
  [][\A e \in Endpoints :
       (TimerTick(e) /\ ch'[e].timer.firingCount >= MaxFirings(ch[e].state))
         => (ch'[e].timer.status = BZRTP_TIMER_OFF /\ sent'[e] = sent[e])]_vars

\* C12: timeout reporting.  The TIMER event that stops the timer returns a
\* non-zero result to the host.
C12_TimeoutReported ==
  [][\A e \in Endpoints :
       (TimerTick(e) /\ ch'[e].timer.status = BZRTP_TIMER_OFF) => ret'[e] # OK]_vars

\* C13: timer back-off.  A timer is armed with the base step, each TIMER
\* event that leaves it on doubles the step up to the cap of the state, and
\* the step never exceeds the cap.
C13_TimerBackoff ==
  /\ [](\A e \in Endpoints :
          ch[e].timer.status = BZRTP_TIMER_ON =>
            /\ ch[e].timer.timerStep <= StepCap(ch[e].state)
            /\ ch[e].timer.firingCount = 0 => ch[e].timer.timerStep = StepBase(ch[e].state))
  /\ [][\A e \in Endpoints :
          (TimerTick(e) /\ ch'[e].timer.status = BZRTP_TIMER_ON)
            => ch'[e].timer.timerStep =
                 IF 2 * ch[e].timer.timerStep <= StepCap(ch[e].state)
                 THEN 2 * ch[e].timer.timerStep ELSE StepCap(ch[e].state)]_vars

\* ------------------------------------------------------------------------
\* Rejected packets
\* ------------------------------------------------------------------------
\* the step gives a packet to e's state machine, which returns an error
Rejects(e) == Handles(e) /\ ret'[e] \notin {OK, "SIGSEGV"}

\* what a rejection is to leave alone
ChannelView(z) ==
  <<z.state, z.role, z.timer.status, z.peerSequenceNumber, z.peerPackets,
    z.s0, z.KDFContext, z.mackeyi, z.mackeyr, z.zrtpkeyi, z.zrtpkeyr>>

\* C14: a rejected packet has no effect.  When the state function returns an
\* error for a delivered packet, the state, the role, the timer status, the
\* last valid peer sequence number, the stored peer messages and the derived
\* keys of the channel are what they were before the call.
C14_RejectedPacketNoEffect ==
  [][\A e \in Endpoints : Rejects(e) => ChannelView(ch'[e]) = ChannelView(ch[e])]_vars

\* ------------------------------------------------------------------------
\* Cached secrets
\* ------------------------------------------------------------------------
\* the step gives e a DHPart1 or DHPart2 that passes the packet check and
\* the parser and whose rs1ID is not the one e computed from the rs1 it holds
MismatchingDHPart(e) ==
  /\ Handles(e)
  /\ Head(net[e]).type \in {"DHPart1", "DHPart2"}
  /\ \/ ch[e].state = "sendingCommit" /\ Head(net[e]).type = "DHPart1"
     \/ ch[e].state = "responderSendingDHPart1" /\ Head(net[e]).type = "DHPart2"
  /\ bzrtp_packetCheck(Head(net[e]), ch[e].peerSequenceNumber) = OK
  /\ bzrtp_packetParser(ch[e], Head(net[e])).ret = OK
  /\ ch[e].cachedSecret.rs1 # 0
  /\ Head(net[e]).msg.rs1ID #
       SecretID(ch[e].cachedSecret.rs1,
                IF Head(net[e]).type = "DHPart1" THEN "Responder" ELSE "Initiator")

CacheMismatchReported == \E e \in Endpoints : ret[e] = "ERROR_CACHEMISMATCH"

\* C15: a cache mismatch is not fatal.  A DHPart1 or DHPart2 whose secret
\* identifier does not match the one computed from a held secret makes the
\* state function report a cache mismatch, and after the report both
\* endpoints still reach the secure state.
C15_CacheMismatchNotFatal ==
  /\ [][\A e \in Endpoints : MismatchingDHPart(e) => ret'[e] = "ERROR_CACHEMISMATCH"]_vars
  /\ CacheMismatchReported ~> BothSecure

\* once a cache mismatch was returned the exchange never completes
CacheMismatchIsFatal == [](CacheMismatchReported => [](~BothSecure))

\* the retained secrets of e's session were rotated with the s0 of the
\* channel: rs1 is derived from s0 and the rs1 the exchange started with,
\* the one of the ZID cache, is rs2 (a cached secret and a derived one are
\* values of different shapes, compared as written)
SecretsRotated(e) ==
  /\ ToString(ch[e].cachedSecret.rs1) =
       ToString(KDF(ch[e].s0, "retained secret", ch[e].KDFContext))
  /\ ch[e].cachedSecret.rs2 = ch[e].zidCache.rs1

\* C16: retained-secret rotation.  A channel that is secure in a DH mode
\* has its session's secrets rotated, rs1 = KDF(s0, "retained secret",
\* KDF context) and rs2 the previous rs1, and a channel that is not secure
\* holds no rotated secret.
C16_RetainedSecretRotation ==
  \A e \in Endpoints :
    /\ (ch[e].isSecure = 1 /\ IsDHMode(ch[e].keyAgreementAlgo)) => SecretsRotated(e)
    /\ ch[e].isSecure = 0 =>
         ToString(ch[e].cachedSecret.rs1) \in {ToString(0), ToString(ch[e].zidCache.rs1)}


\* ------------------------------------------------------------------------
\* Fragmentation
\* ------------------------------------------------------------------------

\* every fragment of the message was handed to the packet check
AllFragmentsDelivered == frag.fragments # <<>> /\ frag.pending = {}

\* the size of a full fragment is a whole number of 32-bit words
WordAlignedMTU == (frag.mtu - ZRTP_FRAGMENTEDPACKET_OVERHEAD) % 4 = 0

\* the packet check handed on a complete message
Reassembled == frag.exitCode = OK /\ frag.message # <<>>

\* C17: for every message and every MTU from 28 to the packet size less one,
\* once all the fragments of the builder were delivered to the packet check
\* the message handed on equals the original message byte for byte.
C17_FragmentationRoundTrip ==
  AllFragmentsDelivered => Reassembled /\ frag.message = frag.msg

\* with a word-aligned MTU the round trip gives the message back
RoundTripWordAligned ==
  AllFragmentsDelivered /\ WordAlignedMTU => Reassembled /\ frag.message = frag.msg

\* with any other MTU the message is never handed on
NeverReassembledUnaligned ==
  frag.fragments # <<>> /\ ~WordAlignedMTU => frag.message = <<>>


\* a step that hands one fragment to the packet check
FragmentDelivered == frag.fragments # <<>> /\ frag'.pending # frag.pending

\* the delivery completes the message exactly when no fragment is missing
\* after it, and returns the informational packet fragment code before
CompletesAtLastFragment ==
  IF frag'.pending = {}
    THEN frag'.exitCode = OK /\ frag'.message = frag.msg
    ELSE frag'.exitCode = "BZRTP_PARSER_INFO_PACKETFRAGMENT" /\ frag'.message = <<>>

\* C18: whatever the order in which the fragments of one message are
\* delivered, each delivery but the last returns the packet fragment code,
\* and the delivery of the last missing fragment completes the message and
\* hands on the same packet, the one of the original message.
C18_FragmentOrderIndependence ==
  [][FragmentDelivered => CompletesAtLastFragment]_vars

\* the order of the fragments does not matter when the MTU is word-aligned
OrderIndependentWordAligned ==
  [][FragmentDelivered /\ WordAlignedMTU => CompletesAtLastFragment]_vars


\* ------------------------------------------------------------------------
\* Loss of a packet of the responder
\* ------------------------------------------------------------------------

ResponderStates == {"responderSendingDHPart1", "responderSendingConfirm1"}

\* the timer of a channel in a responder state is off
ResponderTimerOff ==
  \A e \in Endpoints :
    ch[e].state \in ResponderStates => ch[e].timer.status = BZRTP_TIMER_OFF

\* the network lost a DHPart1, a Confirm1 or a Conf2ACK
ResponderPacketLost == faults = 1

\* C19: the responder never retransmits on a timer, and when one DHPart1,
\* Confirm1 or Conf2ACK is lost and every later packet is delivered, the
\* retransmissions of the initiator make the responder send the lost
\* message again, so that both endpoints eventually reach secure.
C19_RecoveryFromResponderLoss ==
  /\ []ResponderTimerOff
  /\ ResponderPacketLost ~> BothSecure

\* nothing is on its way, the responder of a DH exchange has sent Confirm1
\* and the initiator still sends DHPart2
Confirm1Missing ==
  /\ \A n \in Endpoints : net[n] = <<>>
  /\ \E e \in Endpoints :
       /\ ch[e].state = "responderSendingConfirm1"
       /\ ch[Peer(e)].state = "initiatorSendingDHPart2"

\* nothing is on its way, the responder is secure and the initiator still
\* sends Confirm2
Conf2ACKMissing ==
  /\ \A n \in Endpoints : net[n] = <<>>
  /\ \E e \in Endpoints :
       /\ ch[e].state = "secure" /\ ch[e].role = RESPONDER
       /\ ch[Peer(e)].state = "initiatorSendingConfirm2"

\* a Confirm1 that did not arrive is never sent again
Confirm1NeverResent == [](Confirm1Missing => [](~BothSecure))

\* a Conf2ACK that did not arrive is never sent again
Conf2ACKNeverResent == [](Conf2ACKMissing => [](~BothSecure))


\* ------------------------------------------------------------------------
\* Multistream mode
\* ------------------------------------------------------------------------

Multistream(e) == ch[e].keyAgreementAlgo = "Mult"

DHPartStates == {"responderSendingDHPart1", "initiatorSendingDHPart2"}

\* e handles the packet at the head of its queue
Takes(e, types) ==
  /\ net[e] # <<>>
  /\ Head(net[e]).type \in types
  /\ net'[e] = Tail(net[e])

\* a Multistream channel is in no DHPart state
NoDHPartState == \A e \in Endpoints : Multistream(e) => ch[e].state \notin DHPartStates

\* the DHPart e takes is not accepted: the channel stays in its state,
\* stores no packet and sends no answer
Refuses(e) ==
  /\ ch'[e].state = ch[e].state
  /\ ch'[e].peerPackets = ch[e].peerPackets
  /\ sent'[e] = sent[e]

\* a Multistream channel accepts no DHPart it is given
DHPartRefused ==
  \A e \in Endpoints :
    (Multistream(e) /\ Takes(e, {"DHPart1", "DHPart2"})) => Refuses(e)

\* but for a DHPart2 given to the responder that sends Confirm1
DHPartRefusedElsewhere ==
  \A e \in Endpoints :
    (/\ Multistream(e)
     /\ Takes(e, {"DHPart1", "DHPart2"})
     /\ ~(ch[e].state = "responderSendingConfirm1" /\ Head(net[e]).type = "DHPart2")) =>
      Refuses(e)

\* s0 as the Multistream mode derives it from ZRTPSess
MultistreamS0(z) == KDF(z.ZRTPSess, "ZRTP MSK", z.KDFContext)

\* a Multistream channel enters the given state
MultistreamEnters(e, st) ==
  /\ ch'[e].keyAgreementAlgo = "Mult"
  /\ ch[e].state # st
  /\ ch'[e].state = st

\* a Multistream initiator leaves sendingCommit and stays Multistream
MultistreamLeavesCommit(e) ==
  /\ Multistream(e)
  /\ ch'[e].keyAgreementAlgo = "Mult"
  /\ ch[e].state = "sendingCommit"
  /\ ch'[e].state # "sendingCommit"
  /\ ch'[e].role = INITIATOR

\* the steps into the Confirm states: the responder from the Commit it
\* takes, the initiator from sendingCommit on Confirm1
DirectToConfirm ==
  \A e \in Endpoints :
    /\ MultistreamEnters(e, "responderSendingConfirm1") =>
         (/\ Takes(e, {"Commit"})
          /\ ch[e].state \in {"waitingForHelloAck", "sendingCommit"}
          /\ ch'[e].role = RESPONDER
          /\ ch'[e].ZRTPSess # <<>>
          /\ ch'[e].s0 = MultistreamS0(ch'[e]))
    /\ MultistreamLeavesCommit(e) =>
         (/\ Takes(e, {"Confirm1"})
          /\ ch'[e].state = "initiatorSendingConfirm2"
          /\ ch'[e].ZRTPSess # <<>>
          /\ ch'[e].s0 = MultistreamS0(ch'[e]))
    /\ MultistreamEnters(e, "initiatorSendingConfirm2") =>
         (/\ Takes(e, {"Confirm1"})
          /\ ch[e].state = "sendingCommit")

\* C20: a channel whose key agreement is Multistream is never in
\* responderSendingDHPart1 or initiatorSendingDHPart2 and refuses every
\* DHPart1 and DHPart2; the responder enters responderSendingConfirm1 from
\* the Commit it takes and the initiator initiatorSendingConfirm2 from
\* sendingCommit on Confirm1, with s0 derived from ZRTPSess.
C20_MultistreamNoDHPartPhase ==
  /\ []NoDHPartState
  /\ [][DHPartRefused]_vars
  /\ [][DirectToConfirm]_vars

\* the three parts of it, one by one
MultistreamNeverInDHPartState == []NoDHPartState
MultistreamRefusesDHPart == [][DHPartRefused]_vars
MultistreamRefusesDHPartElsewhere == [][DHPartRefusedElsewhere]_vars
MultistreamDirectToConfirm == [][DirectToConfirm]_vars

\* ------------------------------------------------------------------------
\* C21: codec round trip
\* ------------------------------------------------------------------------
\* the packet was parsed without error into a structure whose fields are
\* those of the message that was built (the MAC is not a field of the
\* message that is built: the builder computes it into the packet)
RoundTrips ==
  /\ codec.parsed.exitCode = OK
  /\ setFields(codec.parsed.messageData) = setFields(codec.m)

\* the menu of a Hello holds the mandatory algorithm of every category
CompleteMenu(m) ==
  /\ \E i \in 1..m.hc : m.supportedHash[i] = mandatoryCryptoType[ZRTP_HASH_TYPE]
  /\ \E i \in 1..m.cc : m.supportedCipher[i] = mandatoryCryptoType[ZRTP_CIPHERBLOCK_TYPE]
  /\ \E i \in 1..m.ac : m.supportedAuthTag[i] = mandatoryCryptoType[ZRTP_AUTHTAG_TYPE]
  /\ \E i \in 1..m.kc :
       m.supportedKeyAgreement[i] = mandatoryCryptoType[ZRTP_KEYAGREEMENT_TYPE]
  /\ \E i \in 1..m.sc : m.supportedSas[i] = mandatoryCryptoType[ZRTP_SAS_TYPE]

IncompleteHello == codec.m.messageType = "Hello" /\ ~CompleteMenu(codec.m)

\* C21: for each of the eight message types and every message the builder
\* accepts, parsing the built packet gives a structure whose fields equal
\* those of the message built, also for a Hello whose menu omits a mandatory
\* algorithm
C21_CodecRoundTrip == codec.step = "parsed" => RoundTrips

\* the round trip holds for every message but a Hello of a menu that omits
\* a mandatory algorithm
RoundTripCompleteMenu ==
  (codec.step = "parsed" /\ ~IncompleteHello) => RoundTrips

\* a Hello of a menu that omits a mandatory algorithm is parsed without
\* error into a Hello that lists more algorithms than the one built
IncompleteMenuGrows ==
  (codec.step = "parsed" /\ IncompleteHello) =>
    /\ codec.parsed.exitCode = OK
    /\ CompleteMenu(codec.parsed.messageData)
    /\ codec.parsed.messageData.hc + codec.parsed.messageData.cc
         + codec.parsed.messageData.ac + codec.parsed.messageData.kc
         + codec.parsed.messageData.sc
       > codec.m.hc + codec.m.cc + codec.m.ac + codec.m.kc + codec.m.sc

\* ------------------------------------------------------------------------
\* C22: sequence number rewrite
\* ------------------------------------------------------------------------
\* the four trailing bytes of a packet string read as a big-endian number
trailingCRC(packetString) ==
  LET L == Len(packetString)
  IN packetString[L - 3] * 16777216 + packetString[L - 2] * 65536
       + packetString[L - 1] * 256 + packetString[L]

\* two packet strings that differ at most in the sequence number (bytes 2
\* and 3 of the header) and in the CRC (the last 4 bytes)
SameButNumberAndCRC(a, b) ==
  /\ Len(a) = Len(b)
  /\ \A i \in 1..(Len(a) - ZRTP_PACKET_CRC_LENGTH) : i \notin {3, 4} => a[i] = b[i]

\* what one call with the next sequence number of the channel does
SequenceNumberSet ==
  LET p == codec.packet
      q == codec'.packet
      n == codec.selfSequenceNumber
      L == Len(p.packetString)
  IN IF p = NullPacket \/ p.packetString = NullString
       THEN /\ codec'.retval # OK
            /\ q = p
            /\ codec'.sent = codec.sent
       ELSE /\ codec'.retval = OK
            /\ q.sequenceNumber = n
            /\ q.packetString[3] * 256 + q.packetString[4] = n
            /\ trailingCRC(q.packetString)
                 = bzrtp_CRC32(SubSeq(q.packetString, 1, L - ZRTP_PACKET_CRC_LENGTH),
                               L - ZRTP_PACKET_CRC_LENGTH)
            /\ SameButNumberAndCRC(p.packetString, q.packetString)
            /\ q.messageType = p.messageType /\ q.messageLength = p.messageLength
            /\ codec'.sent = Append(codec.sent, q.packetString)

\* the packet strings sent so far differ only in sequence number and CRC
RetransmissionsAlike ==
  \A i, j \in 1..Len(codec.sent) : SameButNumberAndCRC(codec.sent[i], codec.sent[j])

\* C22: bzrtp_packetSetSequenceNumber(packet, n) sets the sequence field of
\* the header and the packet's sequenceNumber to n, writes the CRC32 of all
\* bytes before the CRC into the last 4 bytes and leaves every message byte
\* as it was; with no packet or no packet string it returns an error and
\* changes nothing.  So the retransmissions of a stored Hello, Commit,
\* DHPart2 or Confirm2 differ only in sequence number and CRC.
C22_SequenceNumberRewrite ==
  [][SendAgain => (SequenceNumberSet /\ RetransmissionsAlike')]_vars

\* a stored packet was sent under two sequence numbers, one of them past the
\* wrap of the 16 bits
C22_Witness ==
  /\ codec.step = "stored"
  /\ Len(codec.sent) = MaxRetransmissions
  /\ codec.sent[1] # codec.sent[2]
  /\ codec.packet.messageType \in {"Hello", "Commit", "DHPart2", "Confirm2"}
  /\ codec.selfSequenceNumber = 1

\* ------------------------------------------------------------------------
\* C23: repetitions in responderSendingConfirm1
\* ------------------------------------------------------------------------
\* the key agreement of e exchanges no DHPart
SharedSecretMode(e) == ch[e].keyAgreementAlgo \in {"Mult", "Prsh"}

\* e, in responderSendingConfirm1, handles a packet of the given type that
\* passes the packet check
Confirm1Takes(e, type) ==
  /\ ch[e].state = "responderSendingConfirm1"
  /\ Takes(e, {type})
  /\ faults' = faults
  /\ Head(net[e]).seq > ch[e].peerSequenceNumber

\* the message of the packet e handles is the one stored in peerPackets[id]
RepeatsStored(e, id) ==
  /\ ch[e].peerPackets[id] # NoPacket
  /\ Head(net[e]).msg = ch[e].peerPackets[id].msg

\* e sends its stored Confirm1 again under its next sequence number, which
\* no packet of e carried before, and stays in responderSendingConfirm1
ResendsConfirm1(e) ==
  /\ ch'[e].state = "responderSendingConfirm1"
  /\ ret'[e] = OK
  /\ Len(net'[Peer(e)]) = Len(net[Peer(e)]) + 1
  /\ net'[Peer(e)][Len(net'[Peer(e)])].type = "Confirm1"
  /\ net'[Peer(e)][Len(net'[Peer(e)])].msg = ch[e].selfPackets.confirm.msg
  /\ net'[Peer(e)][Len(net'[Peer(e)])].seq = ch[e].selfSequenceNumber
  /\ \A i \in 1..Len(sent[e]) : sent[e][i].seq # ch[e].selfSequenceNumber

RejectsAsUnexpected(e) ==
  /\ ret'[e] = "PARSER_ERROR_UNEXPECTEDMESSAGE"
  /\ Refuses(e)

DHPart2Repetition(e) ==
  (Confirm1Takes(e, "DHPart2") /\ ~SharedSecretMode(e) /\ RepeatsStored(e, "dhpart"))
    => ResendsConfirm1(e)

CommitRepetition(e) ==
  (Confirm1Takes(e, "Commit") /\ SharedSecretMode(e) /\ RepeatsStored(e, "commit"))
    => ResendsConfirm1(e)

DHPart2Unexpected(e) ==
  (Confirm1Takes(e, "DHPart2") /\ SharedSecretMode(e)) => RejectsAsUnexpected(e)

\* C23: in responderSendingConfirm1 with a DH key agreement, a DHPart2 that
\* repeats the stored peer DHPart2 byte for byte makes the responder send
\* its stored Confirm1 again under a fresh sequence number and stay in the
\* state; in Multistream or Preshared mode the same holds for a repeated
\* Commit, and a DHPart2 is rejected as unexpected.
C23_Confirm1Repetitions ==
  [][\A e \in Endpoints :
       DHPart2Repetition(e) /\ CommitRepetition(e) /\ DHPart2Unexpected(e)]_vars

\* what the responder does with the repeated DHPart2 of a DH exchange: it
\* returns UNEXPECTEDMESSAGE and sends nothing
DHPart2RepetitionRefused ==
  [][\A e \in Endpoints :
       (Confirm1Takes(e, "DHPart2") /\ ~SharedSecretMode(e)) => RejectsAsUnexpected(e)]_vars

\* the repeated Commit of a Multistream exchange is answered with the stored
\* Confirm1 when the comparison with the stored Commit finds no difference
CommitRepetitionAnswered ==
  [][\A e \in Endpoints :
       (Confirm1Takes(e, "Commit") /\ SharedSecretMode(e) /\ RepeatsStored(e, "commit"))
         => (ResendsConfirm1(e) \/ ret'[e] = "ERROR_UNMATCHINGPACKETREPETITION")]_vars

\* a Multistream responder that sends Confirm1 neither rejects nor answers
\* a DHPart2: it reads a stored DHPart2 it never had
DHPart2CrashesMultistream ==
  [][\A e \in Endpoints :
       (Confirm1Takes(e, "DHPart2") /\ SharedSecretMode(e)) => ret'[e] = "SIGSEGV"]_vars

\* ------------------------------------------------------------------------
\* C24: Confirm2 in the secure state
\* ------------------------------------------------------------------------
\* e, in the secure state, handles a Confirm2
SecureTakesConfirm2(e) ==
  /\ ch[e].state = "secure"
  /\ Takes(e, {"Confirm2"})
  /\ faults' = faults

\* e sends one packet, a Conf2ACK
SendsConf2ACK(e) ==
  /\ Len(net'[Peer(e)]) = Len(net[Peer(e)]) + 1
  /\ net'[Peer(e)][Len(net'[Peer(e)])].type = "Conf2ACK"

\* C24: in the secure state the reception of a Confirm2, the retransmitted
\* one included, makes the channel send a Conf2ACK and remain in secure.
C24_SecureAnswersConfirm2 ==
  [][\A e \in Endpoints :
       SecureTakesConfirm2(e) => (SendsConf2ACK(e) /\ ch'[e].state = "secure")]_vars

\* the secure state remains secure on a Confirm2, returns 0 and sends
\* nothing
SecureIgnoresConfirm2 ==
  [][\A e \in Endpoints :
       SecureTakesConfirm2(e) =>
         /\ ch'[e].state = "secure"
         /\ ret'[e] = OK
         /\ net'[Peer(e)] = net[Peer(e)]
         /\ sent'[e] = sent[e]]_vars


\* ------------------------------------------------------------------------
\* C25
\* ------------------------------------------------------------------------
\* channel e, in sendingCommit with its own Commit stored, takes the peer's
\* Commit: the packet is a new one
ContendsWith(e) ==
  /\ ch[e].state = "sendingCommit"
  /\ Takes(e, {"Commit"})
  /\ ch[e].selfPackets.commit # NoPacket
  /\ ch[e].role = INITIATOR
  /\ Head(net[e]).seq > ch[e].peerSequenceNumber

selfCommitMode(e) == ch[e].selfPackets.commit.msg.ka
peerCommitMode(e) == Head(net[e]).msg.ka
selfM(e) == ch[e].selfPackets.hello.msg.M
peerM(e) == ch[e].peerPackets.hello.msg.M

\* C25: of two Commits of different modes, exactly one of them Preshared,
\* the channel that sent the Preshared one becomes responder and the channel
\* that sent the other one stays initiator; of two Preshared Commits, when a
\* Hello carries the M flag, the channel whose own Hello carries it becomes
\* responder and a channel whose own Hello does not stays initiator,
\* whatever the two nonces are.
C25_ContentionAcrossModes ==
  [][\A e \in Endpoints :
       ContendsWith(e) =>
         /\ (selfCommitMode(e) = "Prsh" /\ peerCommitMode(e) # "Prsh")
              => ch'[e].role = RESPONDER
         /\ (selfCommitMode(e) # "Prsh" /\ peerCommitMode(e) = "Prsh")
              => (ch'[e].role = INITIATOR /\ ch'[e].state = "sendingCommit")
         /\ (selfCommitMode(e) = "Prsh" /\ peerCommitMode(e) = "Prsh" /\ selfM(e) = 1)
              => ch'[e].role = RESPONDER
         /\ (selfCommitMode(e) = "Prsh" /\ peerCommitMode(e) = "Prsh"
               /\ selfM(e) = 0 /\ peerM(e) = 1)
              => (ch'[e].role = INITIATOR /\ ch'[e].state = "sendingCommit")]_vars

\* the flag has decided against the order of the nonces: of two Preshared
\* Commits, the channel whose Hello carries M is responder with the higher
\* nonce, and its peer, which has dropped that Commit, is still initiator
C25_Witness ==
  \E e \in Endpoints :
    /\ ch[e].role = RESPONDER /\ ch[Peer(e)].role = INITIATOR
    /\ ch[Peer(e)].state = "sendingCommit"
    /\ net[Peer(e)] = <<>> 
    /\ ch[Peer(e)].selfPackets.commit.msg.ka = "Prsh"
    /\ ch[e].peerPackets.commit.msg.ka = "Prsh"
    /\ ch[e].selfPackets.hello.msg.M = 1
    /\ ch[e].peerPackets.hello.msg.M = 0
    /\ ch[e].peerPackets.commit.msg.val < ch[e].rnd


\* ------------------------------------------------------------------------
\* C26
\* ------------------------------------------------------------------------
\* the responder e, in responderSendingDHPart1, takes a DHPart2 that passes
\* the packet check
ResponderTakesDHPart2(e) ==
  /\ ch[e].state = "responderSendingDHPart1"
  /\ ch[e].role = RESPONDER
  /\ Takes(e, {"DHPart2"})
  /\ faults' = faults
  /\ bzrtp_packetCheck(Head(net[e]), ch[e].peerSequenceNumber) = OK

\* hash(DHPart2 message || own Hello message) is the hvi of the stored Commit
HviMatches(e) ==
  <<Head(net[e]).msg, ch[e].selfPackets.hello.msg>> = ch[e].peerPackets.commit.msg.hpre

\* the checks the parser makes before the hvi: H1 hashes to the H2 of the
\* Commit and is the key of the Commit's MAC
ChainToCommit(e) ==
  /\ SHA256(Head(net[e]).msg.H) = ch[e].peerPackets.commit.msg.H
  /\ MACMatches(Head(net[e]).msg.H, ch[e].peerPackets.commit)

\* C26: in responderSendingDHPart1 the responder accepts a DHPart2 and moves
\* to responderSendingConfirm1 only if hash(DHPart2 || own Hello) is the hvi
\* of the stored Commit; a DHPart2 that hashes to something else is not
\* stored and leaves the channel in responderSendingDHPart1, the handler
\* returning UNMATCHINGHVI once the hash chain and the MAC of the Commit,
\* which the parser checks first, are verified.
C26_HviBinding ==
  [][\A e \in Endpoints :
       ResponderTakesDHPart2(e) =>
         /\ (ch'[e].state # "responderSendingDHPart1"
               \/ ch'[e].peerPackets.dhpart # ch[e].peerPackets.dhpart)
              => HviMatches(e)
         /\ ~HviMatches(e) =>
              /\ ch'[e].state = "responderSendingDHPart1"
              /\ ch'[e].peerPackets.dhpart = NoPacket
              /\ ret'[e] # OK
              /\ ChainToCommit(e) => ret'[e] = "PARSER_ERROR_UNMATCHINGHVI"]_vars

\* a DHPart2 with another body has been refused for its hvi, and the
\* responder still waits in responderSendingDHPart1 with no DHPart2 stored
C26_Witness ==
  \E e \in Endpoints :
    /\ ret[e] = "PARSER_ERROR_UNMATCHINGHVI"
    /\ ch[e].state = "responderSendingDHPart1"
    /\ ch[e].role = RESPONDER
    /\ ch[e].peerPackets.dhpart = NoPacket
    /\ ch[e].peerPackets.commit # NoPacket


\* ------------------------------------------------------------------------
\* C27
\* ------------------------------------------------------------------------
\* the two sessions hold the same retained secret rs1
SameCaches ==
  /\ ch[1].cachedSecret.rs1 # 0
  /\ ch[1].cachedSecret.rs1 = ch[2].cachedSecret.rs1

\* channel e takes the DHPart message of its peer as the peer sent it: the
\* initiator a DHPart1 in sendingCommit, the responder a DHPart2 in
\* responderSendingDHPart1
TakesPeerDHPart(e) ==
  /\ \/ ch[e].state = "sendingCommit" /\ Takes(e, {"DHPart1"})
     \/ ch[e].state = "responderSendingDHPart1" /\ Takes(e, {"DHPart2"})
  /\ faults = 0 /\ faults' = faults
  /\ Head(net[e]).msg = ch[Peer(e)].selfPackets.dhpart.msg

\* C27: in a DH exchange between two peers that hold the same rs1, the
\* secret IDs of the DHPart1 the initiator receives and of the DHPart2 the
\* responder receives pass the validation: no CACHEMISMATCH is returned.
C27_MatchingCachesValidate ==
  [][\A e \in Endpoints :
       (SameCaches /\ TakesPeerDHPart(e)) => ret'[e] # "ERROR_CACHEMISMATCH"]_vars

\* the initiator compares the rs1ID of a DHPart1 with the ID it computed for
\* the initiator's role, the DHPart1 carrying the one of the responder's
InitiatorChecksOwnRole ==
  [][\A e \in Endpoints :
       (SameCaches /\ TakesPeerDHPart(e) /\ ch[e].state = "sendingCommit")
         => /\ Head(net[e]).msg.rs1ID = ch[e].responderCachedSecretHash.rs1ID
            /\ Head(net[e]).msg.rs1ID # ch[e].initiatorCachedSecretHash.rs1ID
            /\ ret'[e] = "ERROR_CACHEMISMATCH"
            /\ ch'[e].state = "sendingCommit"]_vars


\* ------------------------------------------------------------------------
\* C28
\* ------------------------------------------------------------------------
\* channel e processes the Hello of its peer: the Hello is delivered and
\* stored
ProcessesPeerHello(e) ==
  /\ Takes(e, {"Hello"})
  /\ ch[e].peerPackets.hello = NoPacket
  /\ ch'[e].peerPackets.hello = Head(net[e])

\* the Hello at the head of the queue of e lists Mult
PeerListsMult(e) ==
  \E i \in 1..Len(Head(net[e]).msg.kas) : Head(net[e]).msg.kas[i] = "Mult"

\* C28: once the peer Hello is processed, the key agreement of the channel
\* is Multistream whenever that Hello lists Mult and the session holds
\* ZRTPSess, whatever the negotiation selected, and no DHPart2 is built
\* then; when the session holds no ZRTPSess the key agreement is the
\* negotiated one.
C28_MultistreamSelection ==
  [][\A e \in Endpoints :
       ProcessesPeerHello(e) =>
         /\ (PeerListsMult(e) /\ ch[e].ZRTPSess # <<>>)
              => /\ ch'[e].keyAgreementAlgo = "Mult"
                 /\ ch'[e].selfPackets.dhpart = NoPacket
         /\ ch[e].ZRTPSess = <<>>
              => ch'[e].keyAgreementAlgo = crypoAlgoAgreement(ch[e], Head(net[e]).msg)]_vars

\* a channel of a session that holds ZRTPSess has processed a Hello that
\* lists Mult: its key agreement is Multistream although the negotiation
\* selects DH3k, and it holds no DHPart2
C28_Witness ==
  \E e \in Endpoints :
    /\ ch[e].peerPackets.hello # NoPacket
    /\ \E i \in 1..Len(ch[e].peerPackets.hello.msg.kas) :
         ch[e].peerPackets.hello.msg.kas[i] = "Mult"
    /\ ch[e].ZRTPSess # <<>>
    /\ crypoAlgoAgreement(ch[e], ch[e].peerPackets.hello.msg) = "DH3k"
    /\ ch[e].keyAgreementAlgo = "Mult"
    /\ ch[e].selfPackets.dhpart = NoPacket


\* ------------------------------------------------------------------------
\* C29
\* ------------------------------------------------------------------------
\* C29: in every reachable state the isSecure flag of a session is 1 only
\* if its channel has entered the secure state, and the flag is 1 as soon
\* as the channel is in the secure state: the handler that moves the
\* channel to state_secure runs it before it returns.
C29_SessionSecureFlag ==
  \A e \in Endpoints :
    /\ ch[e].isSecure \in {0, 1}
    /\ ch[e].isSecure = 1 => ch[e].state = "secure"
    /\ ch[e].state = "secure" => ch[e].isSecure = 1

\* the first channel of a session, after its DH exchange, has entered the
\* secure state as responder and the flag of its session is set, while the
\* session of the peer, still waiting for the Conf2ACK, is not secure yet
C29_Witness ==
  \E e \in Endpoints :
    /\ ch[e].state = "secure" /\ ch[e].isSecure = 1
    /\ ch[e].role = RESPONDER
    /\ ch[e].keyAgreementAlgo = "DH3k"
    /\ ch[Peer(e)].state = "initiatorSendingConfirm2"
    /\ ch[Peer(e)].isSecure = 0


\* ------------------------------------------------------------------------
\* C30
\* ------------------------------------------------------------------------
\* the words of the message the fragments of the list cover
coveredWords(fragments) ==
  {w \in 0..(MaxTotalWords - 1) :
     \E i \in 1..Len(fragments) :
       fragments[i].offset <= w /\ w < fragments[i].offset + fragments[i].length}

\* the slot hands the buffer on with the fragment f: the lengths it holds
\* for the message id of f, f included, sum up to the total f declares
HandsOn(f) ==
  /\ ReceiveFragment(f)
  /\ frag'.exitCode \notin {"BZRTP_PARSER_INFO_PACKETFRAGMENT",
                            "BZRTP_PARSER_ERROR_OUTOFORDER",
                            "BZRTP_PARSER_ERROR_INVALIDPACKET", "SIGSEGV"}

\* the slot as it is when the received lengths are summed
mergedSlot(f) ==
  insertFragment(IF frag.slot.messageId < f.messageId THEN newReassembly(f) ELSE frag.slot,
                 f, 1)

\* C30: the reassembly slot hands a packet to the message parser only when
\* the fragments received for the current message id cover every 32-bit
\* word of [0, total length recorded for the message); fragments that
\* overlap or that declare another total length never get a partially
\* filled buffer parsed.
C30_ReassemblyComplete ==
  [][\A f \in FragmentsWithin :
       HandsOn(f) =>
         /\ coveredWords(mergedSlot(f).fragments) = 0..(mergedSlot(f).messageLength - 1)
         /\ \A i \in 1..Len(frag'.message) : frag'.message[i] # Unwritten]_vars

\* the test that hands the buffer on, for a fragment that is not of an older
\* message and fits the buffer, is the sum of the lengths of the fragments
\* held against the total this last fragment declares
SumDecides ==
  [][\A f \in FragmentsWithin :
       (/\ ReceiveFragment(f)
        /\ frag.slot.messageId <= f.messageId
        /\ frag'.exitCode # "SIGSEGV") =>
         (HandsOn(f) <=> receivedLength(mergedSlot(f).fragments) = f.messageTotalLength)]_vars

\* fragments that are disjoint and declare the recorded total length are
\* handed on only when they cover the message
DisjointFragmentsComplete ==
  [][\A f \in FragmentsWithin :
       (/\ HandsOn(f)
        /\ f.messageTotalLength = mergedSlot(f).messageLength
        /\ \A i, j \in 1..Len(mergedSlot(f).fragments) :
             i < j => mergedSlot(f).fragments[i].offset + mergedSlot(f).fragments[i].length
                        <= mergedSlot(f).fragments[j].offset)
         => /\ coveredWords(mergedSlot(f).fragments) = 0..(mergedSlot(f).messageLength - 1)
            /\ \A i \in 1..Len(frag'.message) : frag'.message[i] # Unwritten]_vars


\* ------------------------------------------------------------------------
\* C31
\* ------------------------------------------------------------------------
\* a fragment of a message id above the one of the slot drops what the slot
\* holds and starts the assembly of the new message
HigherIdRestarts ==
  [][\A f \in FragmentsWithin :
       (ReceiveFragment(f) /\ frag.slot.messageId < f.messageId) =>
         /\ frag'.exitCode \notin FragmentRefused
         /\ frag'.slot.messageLength = f.messageTotalLength
         /\ frag'.slot.packetString = copyFragment(newReassembly(f).packetString, f)
         /\ frag'.slot.fragments \in
              {<<>>, <<[offset |-> f.offset, length |-> f.fragmentLength]>>}]_vars

\* a fragment of a message id below the highest one the channel has taken
\* is refused as out of order and the slot is left as it is
LowerIdRefused ==
  [][\A f \in FragmentsWithin :
       (ReceiveFragment(f) /\ f.messageId < frag.seen) =>
         /\ frag'.exitCode = "BZRTP_PARSER_ERROR_OUTOFORDER"
         /\ frag'.slot = frag.slot]_vars

\* C31: over any sequence of fragment deliveries, a fragment with a message
\* id higher than the slot's discards the partial assembly and starts a new
\* one, and a fragment with a message id lower than the last message id the
\* channel has seen, that assembly being partial or complete, is rejected as
\* out of order and leaves the slot unchanged.
C31_MessageIdOrdering ==
  [][\A f \in FragmentsWithin :
       ReceiveFragment(f) =>
         /\ frag.slot.messageId < f.messageId =>
              /\ frag'.exitCode \notin FragmentRefused
              /\ frag'.slot.messageLength = f.messageTotalLength
              /\ frag'.slot.packetString = copyFragment(newReassembly(f).packetString, f)
         /\ f.messageId < frag.seen =>
              /\ frag'.exitCode = "BZRTP_PARSER_ERROR_OUTOFORDER"
              /\ frag'.slot = frag.slot]_vars

\* while the assembly is partial, a fragment of a lower message id is
\* refused and the slot is left as it is
LowerThanPartialRefused ==
  [][\A f \in FragmentsWithin :
       (ReceiveFragment(f) /\ f.messageId < frag.slot.messageId) =>
         /\ frag'.exitCode = "BZRTP_PARSER_ERROR_OUTOFORDER"
         /\ frag'.slot = frag.slot]_vars

\* the completion of a message clears the message id of the slot, and the
\* fragments of any message id are taken again
CompletionForgetsId ==
  [][\A f \in FragmentsWithin :
       (ReceiveFragment(f) /\ HandsOn(f)) => frag'.slot.messageId = 0]_vars


\* ------------------------------------------------------------------------
\* C32
\* ------------------------------------------------------------------------
\* ceil(a / b)
CeilDiv(a, b) == (a + b - 1) \div b

\* the sum of the payload sizes of the fragments
RECURSIVE payloadSum(_)
payloadSum(fragments) ==
  IF fragments = <<>> THEN 0 ELSE Len(Head(fragments).data) + payloadSum(Tail(fragments))

\* what does not depend on the offsets the fragments carry: one message id,
\* sizes that sum to the message length, packets of at most MTU bytes, and
\* ceil(message length / (MTU - 24)) fragments
FragmentSizes(fragments, msg, mtu, id) ==
  /\ \A i \in 1..Len(fragments) :
       /\ fragments[i].messageId = id
       /\ fragments[i].inputLength <= mtu
       /\ fragments[i].inputLength = ZRTP_FRAGMENTEDPACKET_OVERHEAD + Len(fragments[i].data)
  /\ payloadSum(fragments) = Len(msg)
  /\ Len(fragments) = CeilDiv(Len(msg), mtu - ZRTP_FRAGMENTEDPACKET_OVERHEAD)

\* the first fragment is at offset 0 and each fragment carries the offset,
\* in 32-bit words, where the one before it ended
FragmentOffsets(fragments) ==
  /\ fragments[1].offset = 0
  /\ \A i \in 1..(Len(fragments) - 1) :
       4 * fragments[i + 1].offset = 4 * fragments[i].offset + Len(fragments[i].data)

\* C32: when the builder fragments a message, all fragments carry the same
\* message id, the first offset is 0 and each fragment starts where the
\* one before it ended, the sizes sum to the message length, no fragment
\* packet is longer than the MTU, there are ceil(message length /
\* (MTU - 24)) fragments, and the message id counter of the channel moves
\* on by exactly one.
C32_FragmentLayout ==
  [][BuildFragments =>
       /\ frag'.fragments # <<>>
       /\ FragmentSizes(frag'.fragments, frag.msg, frag.mtu, frag.messageId)
       /\ FragmentOffsets(frag'.fragments)
       /\ frag'.messageId = frag.messageId + 1]_vars

\* the sizes, the count and the message ids are as stated for every MTU
FragmentSizesRight ==
  [][BuildFragments =>
       /\ frag'.fragments # <<>>
       /\ FragmentSizes(frag'.fragments, frag.msg, frag.mtu, frag.messageId)
       /\ frag'.messageId = frag.messageId + 1]_vars

\* the offsets are as stated when MTU - 24 is a multiple of 4
AlignedOffsetsRight ==
  [][(BuildFragments /\ (frag.mtu - ZRTP_FRAGMENTEDPACKET_OVERHEAD) % 4 = 0)
       => FragmentOffsets(frag'.fragments)]_vars

\* a message of 1300 bytes at MTU 300 is cut in 5 fragments, laid out as
\* stated
CommitAtMTU300 ==
  /\ Len(bzrtp_packetBuild_fragments(zrtpMessageSetHeader(325), 300, 1)) = 5
  /\ FragmentSizes(bzrtp_packetBuild_fragments(zrtpMessageSetHeader(325), 300, 1),
                   zrtpMessageSetHeader(325), 300, 1)
  /\ FragmentOffsets(bzrtp_packetBuild_fragments(zrtpMessageSetHeader(325), 300, 1))


\* ------------------------------------------------------------------------
\* C33
\* ------------------------------------------------------------------------
\* the algorithms of the list
Listed(algos) == {algos[i] : i \in 1..Len(algos)}

\* channel e adopts the algorithms of a Commit: it turns into responder and
\* stores the Commit
AdoptsCommit(e) ==
  /\ Takes(e, {"Commit"})
  /\ ch[e].peerPackets.commit = NoPacket
  /\ ch'[e].peerPackets.commit = Head(net[e])

\* two secure endpoints hold the same key agreement
SecureAgree ==
  (ch[1].state = "secure" /\ ch[2].state = "secure")
    => ch[1].keyAgreementAlgo = ch[2].keyAgreementAlgo

\* C33: two endpoints of a channel that are both secure hold the same
\* algorithms, and an algorithm a channel adopts from a received Commit when
\* it turns into responder is in its own supported list and in the list of
\* its Hello; a Commit that names an algorithm outside them is not adopted.
\* (The channel of the model holds the key agreement; the four other
\* algorithms are copied by the same lines.)
C33_AlgorithmAgreement ==
  [][/\ SecureAgree'
     /\ \A e \in Endpoints :
          AdoptsCommit(e) =>
            /\ ch'[e].keyAgreementAlgo \in Listed(WithMandatory(ch[e].supportedKeyAgreement))
            /\ ch'[e].keyAgreementAlgo \in Listed(WithMandatory(ch[e].selfPackets.hello.msg.kas))]_vars

\* whatever a Commit that passes the parser names becomes the key agreement
\* of the channel that turns into responder
CommitAdoptedAsIs ==
  [][\A e \in Endpoints :
       AdoptsCommit(e) => ch'[e].keyAgreementAlgo = Head(net[e]).msg.ka]_vars


\* ------------------------------------------------------------------------
\* C34
\* ------------------------------------------------------------------------
StatesOfResponder == {"responderSendingDHPart1", "responderSendingConfirm1"}

StatesOfInitiator ==
  {"discovery_init", "waitingForHello", "waitingForHelloAck", "sendingCommit",
   "initiatorSendingDHPart2", "initiatorSendingConfirm2"}

\* the role of channel e is the one of its state
RoleOfState(e) ==
  /\ ch[e].state \in StatesOfResponder => ch[e].role = RESPONDER
  /\ ch[e].state \in StatesOfInitiator => ch[e].role = INITIATOR

\* C34: in every reachable state a channel in responderSendingDHPart1 or
\* responderSendingConfirm1 is RESPONDER and a channel in discovery_init,
\* waitingForHello, waitingForHelloAck, sendingCommit,
\* initiatorSendingDHPart2 or initiatorSendingConfirm2 is INITIATOR, and a
\* role that became RESPONDER never goes back to INITIATOR, also when
\* turning into responder fails with an error.
C34_RoleAndStateAgree ==
  [][\A e \in Endpoints :
       /\ RoleOfState(e)'
       /\ ch[e].role = RESPONDER => ch'[e].role = RESPONDER]_vars

\* a channel in one of the responder's states is RESPONDER, and RESPONDER
\* is kept
ResponderKept ==
  [][\A e \in Endpoints :
       /\ ch'[e].state \in StatesOfResponder => ch'[e].role = RESPONDER
       /\ ch[e].role = RESPONDER => ch'[e].role = RESPONDER]_vars

\* a channel whose turn into responder fails on the rebuild of its DHPart
\* is left RESPONDER in the state it was in
FailedTurnLeavesResponder ==
  [][\A e \in Endpoints :
       (/\ Takes(e, {"Commit"})
        /\ ch[e].role = INITIATOR
        /\ ch'[e].role = RESPONDER
        /\ ret'[e] = "BUILDER_ERROR_INVALIDCONTEXT")
         => /\ ch'[e].state = ch[e].state
            /\ ch[e].state \in StatesOfInitiator]_vars


\* ------------------------------------------------------------------------
\* C35
\* ------------------------------------------------------------------------
\* s0, the KDF context and the four Confirm keys of a channel are derived
KeysDerived(z) ==
  /\ z.s0 # <<>> /\ z.KDFContext # <<>>
  /\ z.mackeyi # <<>> /\ z.mackeyr # <<>>
  /\ z.zrtpkeyi # <<>> /\ z.zrtpkeyr # <<>>

\* the keys a channel builds its own Confirm with: those of its role
BuilderKeys(z) ==
  IF z.role = INITIATOR THEN z.zrtpkeyi # <<>> /\ z.mackeyi # <<>>
  ELSE z.zrtpkeyr # <<>> /\ z.mackeyr # <<>>

\* the keys a channel validates the peer's Confirm with: those of the peer's
\* role
ParserKeys(z) ==
  IF z.role = RESPONDER THEN z.zrtpkeyi # <<>> /\ z.mackeyi # <<>>
  ELSE z.zrtpkeyr # <<>> /\ z.mackeyr # <<>>

\* the step stores a Confirm the channel built
BuildsConfirm(e) ==
  ch[e].selfPackets.confirm = NoPacket /\ ch'[e].selfPackets.confirm # NoPacket

\* the step stores a Confirm of the peer
AcceptsConfirm(e) ==
  ch[e].peerPackets.confirm = NoPacket /\ ch'[e].peerPackets.confirm # NoPacket

InvalidContext ==
  {"ERROR_INVALIDCONTEXT", "BUILDER_ERROR_INVALIDCONTEXT", "PARSER_ERROR_INVALIDCONTEXT"}

\* the step brings the channel to a state that builds a Confirm on entry
EntersConfirmState(e) ==
  /\ ch'[e].state # ch[e].state
  /\ ch'[e].state \in {"responderSendingConfirm1", "initiatorSendingConfirm2"}

\* C35: a channel in the secure state has its s0, KDF context, mackeyi,
\* mackeyr, zrtpkeyi and zrtpkeyr derived; a Confirm is stored as built only
\* by a channel that holds the keys of its role, a Confirm of the peer is
\* stored as accepted only by a channel that holds the keys of the peer's
\* role, and a channel that enters a Confirm state without the keys of its
\* role returns INVALIDCONTEXT and stores no Confirm.
C35_KeysWhenSecure ==
  [][\A e \in Endpoints :
       /\ ch'[e].state = "secure" => KeysDerived(ch'[e])
       /\ BuildsConfirm(e) => BuilderKeys(ch'[e])
       /\ AcceptsConfirm(e) => ParserKeys(ch'[e])
       /\ (EntersConfirmState(e) /\ ~BuilderKeys(ch'[e]))
            => /\ ret'[e] \in InvalidContext
               /\ ch'[e].selfPackets.confirm = NoPacket]_vars

\* a Multistream channel is secure as responder: its keys were derived from
\* ZRTPSess when it entered responderSendingConfirm1, it built its Confirm1
\* with the responder keys and accepted the Confirm2 with the initiator keys
C35_Witness ==
  \E e \in Endpoints :
    /\ ch[e].state = "secure" /\ ch[e].role = RESPONDER
    /\ ch[e].keyAgreementAlgo = "Mult"
    /\ KeysDerived(ch[e])
    /\ ch[e].selfPackets.confirm # NoPacket
    /\ ch[e].peerPackets.confirm # NoPacket
    /\ ch[Peer(e)].keyAgreementAlgo = "Mult"

\* in the secure state the two Confirm messages are stored
SecureHasConfirms ==
  \A e \in Endpoints :
    (ch[e].state = "secure" /\ ch[e].role = RESPONDER)
      => ch[e].selfPackets.confirm # NoPacket /\ ch[e].peerPackets.confirm # NoPacket


\* ------------------------------------------------------------------------
\* C36
\* ------------------------------------------------------------------------
\* the last valid sequence number of the peer does not go down in a step
PeerSequenceKept(e) == ch'[e].peerSequenceNumber >= ch[e].peerSequenceNumber

\* C36: over any sequence of deliveries, packets reassembled from fragments
\* included, the peerSequenceNumber of a channel after a delivery is greater
\* than or equal to its value before.
C36_PeerSequenceNeverDecreases ==
  [][\A e \in Endpoints : PeerSequenceKept(e)]_vars


\* the step gives e the oldest packet on its way to it, and the number e
\* keeps as last valid is the one that packet carries
KeepsNumberOf(e) ==
  /\ net[e] # <<>>
  /\ net'[e] = Tail(net[e])
  /\ ch'[e].peerSequenceNumber # ch[e].peerSequenceNumber
  /\ ch'[e].peerSequenceNumber = Head(net[e]).seq

\* the number kept from a delivered packet is never below the one kept
\* before, whether the packet came whole or in fragments
DeliveredNumberRises ==
  [][\A e \in Endpoints : KeepsNumberOf(e) => PeerSequenceKept(e)]_vars

\* the number kept from a packet that came whole is above the one kept before
WholePacketRises ==
  [][\A e \in Endpoints :
       (KeepsNumberOf(e) /\ ~isFragmented(Head(net[e]))) => PeerSequenceKept(e)]_vars


\* ------------------------------------------------------------------------
\* C37
\* ------------------------------------------------------------------------
\* the step gives e a whole packet numbered 0 when the last valid number of
\* the peer is 65535: the number after 65535 in 16 bits
TakesWrapped(e) ==
  /\ net[e] # <<>>
  /\ net'[e] = Tail(net[e])
  /\ ~isFragmented(Head(net[e]))
  /\ ch[e].peerSequenceNumber = SeqModulus - 1
  /\ Head(net[e]).seq = Inc(ch[e].peerSequenceNumber)

\* C37: sequence numbers are 16-bit; after a packet numbered 65535 has been
\* accepted, the next whole packet of the peer, numbered 0 after wrapping,
\* is not rejected as out of order.
C37_Wraparound ==
  [][\A e \in Endpoints : TakesWrapped(e) => ret'[e] # "PARSER_ERROR_OUTOFORDER"]_vars

\* every packet numbered 0 is rejected as out of order and leaves the
\* channel as it is
WrappedRejected ==
  [][\A e \in Endpoints :
       TakesWrapped(e) => /\ ret'[e] = "PARSER_ERROR_OUTOFORDER"
                          /\ ch'[e] = ch[e]]_vars

\* once the last valid number is 65535 it stays: no packet of the peer is
\* accepted any more
TopIsFinal ==
  [][\A e \in Endpoints :
       ch[e].peerSequenceNumber = SeqModulus - 1
         => /\ ch'[e].peerSequenceNumber = SeqModulus - 1
            /\ ch'[e].peerPackets = ch[e].peerPackets]_vars

\* the numbers a channel gives its packets wrap at 16 bits
NumbersWrap ==
  \A e \in Endpoints : ch[e].selfSequenceNumber \in 0..(SeqModulus - 1)


\* ------------------------------------------------------------------------
\* C38
\* ------------------------------------------------------------------------
\* C38: an INIT event given to discovery_init when the Hello is stored, or
\* to sendingCommit when the Commit is stored, builds no packet, sends
\* nothing, does not arm or reset the timer and leaves the self sequence
\* number as it is: the channel, the packets sent and the packets on their
\* way are what they were, and the call returns 0.
C38_StartIdempotent ==
  [][\A e \in Endpoints :
       Restart(e) => /\ ch'[e].selfPackets = ch[e].selfPackets
                     /\ ch'[e].timer = ch[e].timer
                     /\ ch'[e].selfSequenceNumber = ch[e].selfSequenceNumber
                     /\ ch' = ch
                     /\ sent' = sent
                     /\ net' = net
                     /\ ret'[e] = OK]_vars

\* the INIT event was given twice more, and a channel is in sendingCommit
\* with its Commit stored, sent once, and the timer the first INIT armed
C38_Witness ==
  \E e \in Endpoints :
    /\ faults = MaxDisturbances
    /\ ch[e].state = "sendingCommit"
    /\ ch[e].selfPackets.commit # NoPacket
    /\ ch[e].timer.status = BZRTP_TIMER_ON
    /\ Cardinality({i \in 1..Len(sent[e]) : sent[e][i].type = "Commit"}) = 1
    /\ Cardinality({i \in 1..Len(sent[e]) : sent[e][i].type = "Hello"}) = 1
    /\ ch[e].selfSequenceNumber = InitChannel(e, ProfileMain(e)).selfSequenceNumber
                                    + Len(sent[e]) + 1


\* ------------------------------------------------------------------------
\* C39
\* ------------------------------------------------------------------------
\* the slot the fragment f is inserted in: the one of a new message when
\* the id of f is above the stored one
slotFor(f) == IF frag.slot.messageId < f.messageId THEN newReassembly(f) ELSE frag.slot

\* the packet check copies the payload of f into the buffer of the slot
CopiesPayload(f) ==
  /\ ReceiveFragment(f)
  /\ f.inputLength >= ZRTP_MIN_PACKET_LENGTH /\ f.inputLength <= ZRTP_MAX_PACKET_LENGTH
  /\ frag.slot.messageId <= f.messageId
  /\ copiesFragment(slotFor(f), f)

\* the bytes copied lie inside the buffer of the current message
WriteInBounds(f) == 4 * f.offset + Len(f.data) <= 4 * slotFor(f).messageLength

\* a buffer was allocated for the current message
BufferAllocated(f) == slotFor(f).packetString # <<>>

\* the payload copied has the length the fragment header declares
DeclaredLengthCopied(f) == Len(f.data) = 4 * f.fragmentLength

\* C39: for every fragment the packet check accepts and copies, the bytes
\* copied lie inside the buffer allocated for the current message
\* (4*offset + payload length <= 4*total length), a buffer has been
\* allocated before the copy, also for a first fragment whose message id is
\* 0, and the payload length copied is the fragment length of the header.
C39_FragmentWritesInBounds ==
  [][\A f \in CraftedFragments :
       CopiesPayload(f) => /\ WriteInBounds(f)
                           /\ BufferAllocated(f)
                           /\ DeclaredLengthCopied(f)]_vars

\* the three parts of C39, each on its own and for fragments that are
\* well formed: within their declared total length, payload as declared
WellFormed(f) ==
  /\ f.offset + f.fragmentLength <= f.messageTotalLength
  /\ Len(f.data) = 4 * f.fragmentLength

WellFormedInBounds ==
  [][\A f \in CraftedFragments :
       (CopiesPayload(f) /\ WellFormed(f) /\ BufferAllocated(f)) => WriteInBounds(f)]_vars

WellFormedAllocated ==
  [][\A f \in CraftedFragments :
       (CopiesPayload(f) /\ WellFormed(f)) => BufferAllocated(f)]_vars

\* a first fragment whose message id is above 0 finds a buffer
PositiveIdAllocated ==
  [][\A f \in CraftedFragments :
       (CopiesPayload(f) /\ f.messageId > 0) => BufferAllocated(f)]_vars

\* the copy leaves the buffer exactly when the process is lost
OverflowCrashes ==
  [][\A f \in CraftedFragments :
       ReceiveFragment(f) =>
         (frag'.exitCode = "SIGSEGV"
            <=> (CopiesPayload(f) /\ 4 * f.offset + Len(f.data) > Len(slotFor(f).packetString)))]_vars


\* ------------------------------------------------------------------------
\* C40
\* ------------------------------------------------------------------------
\* the offset of f is recorded in the fragment list of the message being
\* reassembled, which has the message id of f
DuplicateOffset(f) ==
  /\ frag.slot.messageId = f.messageId
  /\ \E i \in 1..Len(frag.slot.fragments) : frag.slot.fragments[i].offset = f.offset

\* C40: the delivery of a fragment whose offset is already recorded for the
\* current message leaves the reassembly slot as it is, buffer content,
\* fragment list and total received length, and does not report the message
\* complete.
C40_DuplicateFragmentsIdempotent ==
  [][\A f \in FragmentsWithin :
       (ReceiveFragment(f) /\ DuplicateOffset(f))
         => /\ frag'.slot = frag.slot
            /\ receivedLength(frag'.slot.fragments) = receivedLength(frag.slot.fragments)
            /\ frag'.exitCode = "BZRTP_PARSER_INFO_PACKETFRAGMENT"
            /\ frag'.message = <<>>]_vars

\* a fragment whose offset is recorded is neither copied nor added to the
\* list: the buffer keeps its content and the list its entries unless the
\* message is handed on
DuplicateNotCounted ==
  [][\A f \in FragmentsWithin :
       (ReceiveFragment(f) /\ DuplicateOffset(f))
         => /\ frag'.slot.packetString = frag.slot.packetString
            /\ frag'.slot.fragments \in {frag.slot.fragments, <<>>}
            /\ mergedSlot(f) = frag.slot]_vars

\* the slot is left as it is whenever the lengths recorded do not add up to
\* the total length the duplicate declares
DuplicateShortOfTotal ==
  [][\A f \in FragmentsWithin :
       (/\ ReceiveFragment(f) /\ DuplicateOffset(f)
        /\ receivedLength(frag.slot.fragments) # f.messageTotalLength)
         => /\ frag'.slot = frag.slot
            /\ frag'.exitCode = "BZRTP_PARSER_INFO_PACKETFRAGMENT"]_vars

====
